---- MODULE Spec2Model ----
(***************************************************************************)
(* Move submission, win claim, rematch and game creation of spam-chess,    *)
(* as they act on the shared store (FEN key, META hash, cooldown markers)  *)
(* and on the event channel.                                               *)
(*                                                                         *)
(* The rules engine (chess.js) is modelled on a BoardSize x BoardSize      *)
(* board with kings and rooks (and the queen used as decoy); a text is a   *)
(* sequence of one-character strings.                                      *)
(***************************************************************************)
EXTENDS Integers, Sequences, FiniteSets, TLC

(* ------------------------------------------------------------------ *)
(* Bounds of the model                                                 *)
(* ------------------------------------------------------------------ *)
BoardSize == 3       \* the board is BoardSize x BoardSize
NumProcs == 2        \* request slots, one per player's client
MaxRequests == 3     \* move submissions of Spec
MaxRematches == 1    \* rematch requests of SpecRematch
RematchRequests == 3 \* move submissions of SpecRematch
CooldownRequests == 3 \* move submissions of SpecCooldown
WinRequests == 3      \* move submissions of SpecWin
MaxPlayers == 2       \* players who join in SpecWin
MaxLog == 140  \* entries of a history whose replay is timed
MaxReplay == 3 \* entries of a replayed history
MaxJoins == 2 \* join requests of SpecJoin
MaxHistory == 2 \* entries of the short histories of SpecStats
SprinterMoves == 6 \* quiet moves of a long history that make a sprinter
PacifistMoves == 9 \* quiet moves of a long history that make a pacifist
ClientRequests == 3 \* move submissions of SpecClient
ShadowRequests == 3 \* move submissions of SpecShadow
RegicideRequests == 2 \* move submissions of SpecRegicide
BusyRequests == 6    \* move submissions of SpecBusy

(* ------------------------------------------------------------------ *)
(* Program constants                                                   *)
(* ------------------------------------------------------------------ *)
MAX_RETRIES == 5

Teams == {"w", "b"}
Other(team) == IF team = "w" THEN "b" ELSE "w"

(* ------------------------------------------------------------------ *)
(* Squares, pieces, texts                                              *)
(* ------------------------------------------------------------------ *)
FileChars == <<"a", "b", "c", "d", "e", "f", "g", "h">>
RankChars == <<"1", "2", "3", "4", "5", "6", "7", "8">>
Coords == 1..BoardSize
Squares == Coords \X Coords
NoSquare == <<0, 0>>
SqText(sq) == <<FileChars[sq[1]], RankChars[sq[2]]>>

NoPiece == [type |-> "-", color |-> "-"]
Piece(t, c) == [type |-> t, color |-> c]

Upper(c) ==
  CASE c = "k" -> "K" [] c = "q" -> "Q" [] c = "r" -> "R"
    [] c = "b" -> "B" [] c = "n" -> "N" [] OTHER -> c
Lower(c) ==
  CASE c = "K" -> "k" [] c = "Q" -> "q" [] c = "R" -> "r"
    [] c = "B" -> "b" [] c = "N" -> "n" [] c = "O" -> "o"
    [] c = "A" -> "a" [] c = "C" -> "c" [] c = "D" -> "d" [] c = "E" -> "e"
    [] c = "F" -> "f" [] c = "G" -> "g" [] c = "H" -> "h" [] c = "P" -> "p"
    [] c = "X" -> "x" [] OTHER -> c

StartsWith(s, prefix) ==
  /\ Len(prefix) <= Len(s)
  /\ SubSeq(s, 1, Len(prefix)) = prefix

cleanMove(m) ==
  LET kept == SelectSeq(m, LAMBDA c : c \notin {"x", "=", "#", "+"})
  IN  [i \in 1..Len(kept) |-> Lower(kept[i])]

(* ------------------------------------------------------------------ *)
(* Rules engine: a game value is [board, turn, half, full]             *)
(* ------------------------------------------------------------------ *)
RookDirs == {<<1, 0>>, <<-1, 0>>, <<0, 1>>, <<0, -1>>}
BishopDirs == {<<1, 1>>, <<1, -1>>, <<-1, 1>>, <<-1, -1>>}
KnightJumps == {<<1, 2>>, <<2, 1>>, <<-1, 2>>, <<-2, 1>>,
                <<1, -2>>, <<2, -1>>, <<-1, -2>>, <<-2, -1>>}

Shift(sq, d, k) == <<sq[1] + k * d[1], sq[2] + k * d[2]>>

SlideDirs(t) ==
  CASE t = "r" -> RookDirs
    [] t = "b" -> BishopDirs
    [] t = "q" -> RookDirs \cup BishopDirs
    [] OTHER -> {}

\* squares a piece of type t standing on `from` bears on, given the occupancy
Reach(board, from, t) ==
  IF t = "k" THEN
    {Shift(from, d, 1) : d \in RookDirs \cup BishopDirs} \cap Squares
  ELSE IF t = "n" THEN
    {Shift(from, d, 1) : d \in KnightJumps} \cap Squares
  ELSE
    {sq \in Squares :
       \E d \in SlideDirs(t), k \in 1..BoardSize :
         /\ sq = Shift(from, d, k)
         /\ \A j \in 1..(k - 1) : board[Shift(from, d, j)] = NoPiece}

isAttacked(board, byColor, sq) ==
  \E s \in Squares :
    /\ board[s].color = byColor
    /\ sq \in Reach(board, s, board[s].type)

findKing(game, color) ==
  IF \E s \in Squares : game.board[s] = Piece("k", color)
  THEN CHOOSE s \in Squares : game.board[s] = Piece("k", color)
  ELSE NoSquare

isKingAttacked(board, color) ==
  \E s \in Squares :
    /\ board[s] = Piece("k", color)
    /\ isAttacked(board, Other(color), s)

remove(game, sq) == [game EXCEPT !.board[sq] = NoPiece]

put(game, piece, sq) ==
  IF /\ piece.type = "k"
     /\ \E s \in Squares \ {sq} : game.board[s] = piece
  THEN game
  ELSE [game EXCEPT !.board[sq] = piece]

BoardAfter(board, from, to) ==
  [board EXCEPT ![from] = NoPiece, ![to] = board[from]]

\* from/to pairs the side to move may play: own king not left attacked, and
\* the engine generates no capture of a king
LegalPairs(game) ==
  LET us == game.turn
  IN  {ft \in Squares \X Squares :
         /\ game.board[ft[1]].color = us
         /\ ft[2] \in Reach(game.board, ft[1], game.board[ft[1]].type)
         /\ game.board[ft[2]].color # us
         /\ game.board[ft[2]].type # "k"
         /\ ~isKingAttacked(BoardAfter(game.board, ft[1], ft[2]), us)}

Lan(from, to) == SqText(from) \o SqText(to)

San(game, legal, from, to) ==
  LET p == game.board[from].type
      others == {o \in legal :
                   game.board[o[1]].type = p /\ o[2] = to /\ o[1] # from}
      disamb ==
        IF others = {} THEN <<>>
        ELSE IF \A o \in others : o[1][1] # from[1]
             THEN <<FileChars[from[1]]>>
        ELSE IF \A o \in others : o[1][2] # from[2]
             THEN <<RankChars[from[2]]>>
        ELSE SqText(from)
      after == BoardAfter(game.board, from, to)
      them == Other(game.turn)
      check == isKingAttacked(after, them)
      mate == check /\
              LegalPairs([game EXCEPT !.board = after, !.turn = them]) = {}
  IN  <<Upper(p)>> \o disamb
        \o (IF game.board[to] # NoPiece THEN <<"x">> ELSE <<>>)
        \o SqText(to)
        \o (IF mate THEN <<"#">> ELSE IF check THEN <<"+">> ELSE <<>>)

\* game.moves({ verbose: true }): the legal moves of the side to move
moves(game) ==
  LET legal == LegalPairs(game)
  IN  {[from |-> ft[1], to |-> ft[2],
        piece |-> game.board[ft[1]].type,
        captured |-> game.board[ft[2]].type,
        promotion |-> "-",
        flags |-> IF game.board[ft[2]] = NoPiece THEN "n" ELSE "c",
        san |-> San(game, legal, ft[1], ft[2]),
        lan |-> Lan(ft[1], ft[2])] : ft \in legal}

\* position of a move in the engine's generation order: from-squares are
\* scanned from the top rank down, files left to right; a piece's moves by
\* direction, then by distance
DirOrder(t) ==
  IF t \in {"k", "q"}
  THEN <<<<-1, 1>>, <<0, 1>>, <<1, 1>>, <<1, 0>>,
         <<1, -1>>, <<0, -1>>, <<-1, -1>>, <<-1, 0>>>>
  ELSE IF t = "r" THEN <<<<0, 1>>, <<1, 0>>, <<0, -1>>, <<-1, 0>>>>
  ELSE IF t = "b" THEN <<<<-1, 1>>, <<1, 1>>, <<1, -1>>, <<-1, -1>>>>
  ELSE <<<<-2, 1>>, <<-1, 2>>, <<1, 2>>, <<2, 1>>,
         <<2, -1>>, <<1, -2>>, <<-1, -2>>, <<-2, -1>>>>

MoveOrder(m) ==
  LET dirs == DirOrder(m.piece)
      hit == {<<i, k>> \in (1..Len(dirs)) \X (1..BoardSize) :
                Shift(m.from, dirs[i], k) = m.to}
      ik == CHOOSE x \in hit : TRUE
  IN  ((BoardSize - m.from[2]) * BoardSize + (m.from[1] - 1)) * 100
        + ik[1] * 10 + ik[2]

\* Array.prototype.find over the generated moves: of the moves that match
\* (hits), the first in generation order, or NoMove
NoMove == [from |-> NoSquare, to |-> NoSquare, piece |-> "-", captured |-> "-",
           promotion |-> "-", flags |-> "-", san |-> <<>>, lan |-> <<>>]
find(hits) ==
  IF hits = {} THEN NoMove
  ELSE CHOOSE m \in hits : \A o \in hits : MoveOrder(m) <= MoveOrder(o)

\* game.move(m): the new game value, or Illegal when the engine refuses
Illegal == [board |-> <<>>, turn |-> "-", half |-> 0, full |-> 0]
move(game, m) ==
  IF <<m.from, m.to>> \in LegalPairs(game)
  THEN [board |-> BoardAfter(game.board, m.from, m.to),
        turn |-> Other(game.turn),
        half |-> IF game.board[m.to] # NoPiece THEN 0 ELSE game.half + 1,
        full |-> IF game.turn = "b" THEN game.full + 1 ELSE game.full]
  ELSE Illegal

\* (mutation) the prefixes are accepted for every move
isMoveMatchPrefixOfAny(userInputClean, m) ==
  LET lan == cleanMove(m.lan)
      san == cleanMove(m.san)
      p == m.piece
      f == FileChars[m.from[1]]
      r == RankChars[m.from[2]]
      t == SqText(m.to)
  IN  \/ lan = userInputClean
      \/ san = userInputClean
      \/ StartsWith(lan, userInputClean) /\ Len(userInputClean) = 4
      \/ StartsWith(san, userInputClean) /\ Len(userInputClean) >= 3
      \/ /\ p # "p"
         /\ userInputClean \in {<<p, f>> \o t, <<p, r>> \o t, <<p, f, r>> \o t}

isMoveMatch(userInputClean, m) ==
  LET lan == cleanMove(m.lan)
      san == cleanMove(m.san)
      p == m.piece
      f == FileChars[m.from[1]]
      r == RankChars[m.from[2]]
      t == SqText(m.to)
  IN  \/ lan = userInputClean
      \/ san = userInputClean
      \/ /\ m.promotion # "-"
         /\ \/ StartsWith(lan, userInputClean) /\ Len(userInputClean) = 4
            \/ StartsWith(san, userInputClean) /\ Len(userInputClean) >= 3
      \/ /\ p # "p"
         /\ userInputClean \in {<<p, f>> \o t, <<p, r>> \o t, <<p, f, r>> \o t}

(* ------------------------------------------------------------------ *)
(* One attempt's computation on the snapshot it read                   *)
(* ------------------------------------------------------------------ *)
\* (mutation) the engine is set up with the stored side to move
KeepTurn(currentFen, team) == currentFen

\* fenParts[1] = team; new Chess(forcedFen)
ForceTurn(currentFen, team) == [currentFen EXCEPT !.turn = team]

\* the regicide phase: whether the text is a capture onto the decoy standing
\* on the enemy king's square, and the engine's board after the cleanup
RegicideCheck(game, team, cleanedInput) ==
  LET myKingPos == findKing(game, team)
      enemyKingPos == findKing(game, Other(team))
      isKingMove ==
        \/ StartsWith(cleanedInput, <<"k">>)
        \/ myKingPos # NoSquare /\ StartsWith(cleanedInput, SqText(myKingPos))
      removeMine == myKingPos # NoSquare /\ ~isKingMove
      myKingPiece == game.board[myKingPos]
      g1 == IF removeMine THEN remove(game, myKingPos) ELSE game
      enemyKingPiece == g1.board[enemyKingPos]
      g2 == put(remove(g1, enemyKingPos), Piece("q", Other(team)), enemyKingPos)
      killShot ==
        find({m \in moves(g2) :
                isMoveMatch(cleanedInput, m) /\ m.to = enemyKingPos})
      g3 == put(remove(g2, enemyKingPos), enemyKingPiece, enemyKingPos)
      g4 == IF removeMine THEN put(g3, myKingPiece, myKingPos) ELSE g3
  IN  IF enemyKingPos = NoSquare
      THEN [isRegicide |-> FALSE, game |-> game]
      ELSE [isRegicide |-> killShot # NoMove, game |-> g4]

\* the matched standard move, found on the board or else on the shadow board
\* without the submitter's king; NoMove when nothing matches
StandardMove(game, team, cleanedInput) ==
  LET myKingPos == findKing(game, team)
      standard == find({m \in moves(game) : isMoveMatch(cleanedInput, m)})
  IN  IF standard # NoMove \/ myKingPos = NoSquare THEN standard
      ELSE find({m \in moves(remove(game, myKingPos)) :
                   isMoveMatch(cleanedInput, m)})

\* the execution phase: game.move, or the manual move when the engine refuses
\* (the engine of this model generates no castling, so no rook follows)
Execute(game, moveDetails) ==
  LET result == move(game, moveDetails)
      piece == game.board[moveDetails.from]
      target == game.board[moveDetails.to]
      g1 == remove(remove(game, moveDetails.from), moveDetails.to)
      moved == IF moveDetails.promotion # "-"
               THEN [piece EXCEPT !.type = moveDetails.promotion] ELSE piece
      forced == IF piece # NoPiece THEN put(g1, moved, moveDetails.to) ELSE g1
  IN  IF result # Illegal
      THEN [newFen |-> result, capturedPiece |-> moveDetails.captured]
      ELSE [newFen |-> forced,
            capturedPiece |-> IF target # NoPiece THEN target.type
                              ELSE moveDetails.captured]

\* what one pass of the loop body decides from the snapshot it read
NoFen == [board |-> <<>>, turn |-> "?", half |-> 0, full |-> 0]
Attempt(currentFen, team, text) ==
  LET cleanedInput == cleanMove(text)
      rc == RegicideCheck(ForceTurn(currentFen, team), team, cleanedInput)
      moveDetails == StandardMove(rc.game, team, cleanedInput)
      ex == Execute(rc.game, moveDetails)
  IN  IF rc.isRegicide
      THEN [kind |-> "regicide", newFen |-> NoFen, captured |-> "k"]
      ELSE IF moveDetails = NoMove
      THEN [kind |-> "nomatch", newFen |-> NoFen, captured |-> "-"]
      ELSE [kind |-> "move", newFen |-> ex.newFen, captured |-> ex.capturedPiece]

(* ------------------------------------------------------------------ *)
(* Inputs                                                              *)
(* ------------------------------------------------------------------ *)
Procs == 1..NumProcs
Users == {"ann", "bob"}
\* the player whose client holds request slot p
UserOf(p) == IF p % 2 = 1 THEN "ann" ELSE "bob"

\* the submissions a client may send: a text and the team it claims;
\* <<>> is the missing field
Rb1c1 == <<"b", "1", "c", "1">>
Rxc3 == <<"R", "x", "c", "3">>
Rb3b2 == <<"b", "3", "b", "2">>
Rb2b3 == <<"r", "b", "3">>
Rc1b1 == <<"c", "1", "b", "1">>
Submissions ==
  { [move |-> Rb1c1, team |-> "w"],
    [move |-> Rxc3, team |-> "w"],
    [move |-> Rb3b2, team |-> "b"],
    [move |-> <<>>, team |-> "w"] }
RematchSubmissions ==
  { [move |-> Rb1c1, team |-> "w"],
    [move |-> Rxc3, team |-> "w"] }
\* one player keeps sending the same white move, the other shuffles a rook
BusySubmissions(p) ==
  IF p = 1 THEN { [move |-> Rb1c1, team |-> "w"] }
  ELSE { [move |-> Rb3b2, team |-> "b"], [move |-> Rb2b3, team |-> "b"] }

\* texts for the capture onto c3 by a rook from c1 or a bishop from a1
c1c3 == <<"c", "1", "c", "3">>
Bxc3 == <<"B", "x", "c", "3">>
Baxc3 == <<"B", "a", "x", "c", "3">>
B1xc3 == <<"B", "1", "x", "c", "3">>
RegicideSubmissions ==
  { [move |-> m, team |-> "w"] : m \in {Rxc3, c1c3, Bxc3, Baxc3, B1xc3} }

\* Positions of a game in play, white able to capture onto the black king's
\* square c3: by the rook from c1, with the white king safe on a1 or in the
\* line of a rook on a3; by the bishop from a1, with the white king on b1
\* safe or in the line of a rook on b3
Position(placed) ==
  [board |-> [sq \in Squares |->
                IF sq \in DOMAIN placed THEN placed[sq] ELSE NoPiece],
   turn |-> "b", half |-> 2, full |-> 3]
RegicidePositions ==
  { Position(<<1, 1>> :> Piece("k", "w") @@ <<3, 1>> :> Piece("r", "w")
               @@ <<3, 3>> :> Piece("k", "b")),
    Position(<<1, 1>> :> Piece("k", "w") @@ <<3, 1>> :> Piece("r", "w")
               @@ <<3, 3>> :> Piece("k", "b") @@ <<1, 3>> :> Piece("r", "b")),
    Position(<<2, 1>> :> Piece("k", "w") @@ <<1, 1>> :> Piece("b", "w")
               @@ <<3, 3>> :> Piece("k", "b")),
    Position(<<2, 1>> :> Piece("k", "w") @@ <<1, 1>> :> Piece("b", "w")
               @@ <<3, 3>> :> Piece("k", "b") @@ <<2, 3>> :> Piece("r", "b")) }

\* texts that name a rook's move onto the square of its own king
Ra1 == <<"R", "a", "1">>
Rc3 == <<"R", "c", "3">>
ShadowSubmissions ==
  { [move |-> Ra1, team |-> "w"],
    [move |-> Rc3, team |-> "b"],
    [move |-> Rb3b2, team |-> "b"] }

CooldownSubmissions ==
  { [move |-> Rb1c1, team |-> "w"], [move |-> Rb3b2, team |-> "b"] }

\* rnbqkbnr/... w KQkq - 0 1 on the model's board: wK a1, wR b1, bR b3, bK c3
STARTING_FEN ==
  [board |-> [sq \in Squares |->
                CASE sq = <<1, 1>> -> Piece("k", "w")
                  [] sq = <<2, 1>> -> Piece("r", "w")
                  [] sq = <<2, 3>> -> Piece("r", "b")
                  [] sq = <<3, 3>> -> Piece("k", "b")
                  [] OTHER -> NoPiece],
   turn |-> "w", half |-> 0, full |-> 1]

(* ------------------------------------------------------------------ *)
(* State                                                               *)
(* ------------------------------------------------------------------ *)
VARIABLES
  fenStore,     \* GAME:{id}:FEN, NoFen while the key does not exist
  metaStore,    \* GAME:{id}:META as [status, winner], NoMeta while absent
  cooldown,     \* the cooldown keys GAME:{id}:COOLDOWN:{username} that exist
  events,       \* what pusher.trigger has published on game-{id}, in order
  req,          \* per request slot: the move handler's position and locals
  rematch,      \* the rematch handler's position
  nRequests,    \* move submissions started so far
  nRematches,   \* rematch requests started so far
  playersStore, \* GAME:{id}:PLAYERS, the list of the players who joined
  client,       \* the game page of one player: its React state
  joins,        \* per join request slot: the join handler's position
  stats,        \* the page's stats effect: its inputs and finalStats
  replay,       \* the replay hook: its history, timer and displayed frame
  overlap,      \* per request slot: other requests in flight beside its last
  calc          \* a helper function called on its own: arguments and result

vars == <<fenStore, metaStore, cooldown, events, req, rematch,
          nRequests, nRematches, playersStore, client, joins, stats, replay,
          overlap, calc>>

\* the state of the join handler, the stats effect and the replay hook
sideVars == <<joins, stats, replay, overlap, calc>>

NoMeta == [status |-> "?", winner |-> "?"]
NoResponse == [success |-> FALSE, status |-> 0, message |-> "-"]
Response(ok, code, msg) == [success |-> ok, status |-> code, message |-> msg]

\* the answer after the loop, and the answer of the catch block
BusyResponse == Response(FALSE, 409, "Server busy, try again")
ErrorResponse == Response(FALSE, 500, "Error")
\* { success: true, isGameOver: true, winner: team }
WinResponse(team) ==
  [success |-> TRUE, status |-> 200, message |-> "-", isGameOver |-> TRUE,
   winner |-> team]

IdleReq ==
  [pc |-> "idle", move |-> <<>>, team |-> "-", username |-> "-",
   attempt |-> 0, gotFen |-> FALSE, gotMeta |-> FALSE,
   currentFen |-> NoFen, meta |-> NoMeta, newFen |-> NoFen, captured |-> "-",
   response |-> NoResponse,
   \* history of the request, kept for the properties:
   wrote |-> 0,           \* successful script writes it has made
   casFailed |-> 0,       \* update scripts of it that returned 0
   marked |-> FALSE,      \* it has set its cooldown marker
   afterFinish |-> FALSE, \* it started when status was already finished
   path |-> "-"]          \* the return statement it left by

\* a finished request keeps only its answer and its history
Respond(r, path, resp) ==
  [IdleReq EXCEPT !.pc = "done", !.response = resp, !.wrote = r.wrote,
                  !.casFailed = r.casFailed, !.marked = r.marked,
                  !.afterFinish = r.afterFinish,
                  !.path = path]

IdleRematch == [pc |-> "idle", fenDone |-> FALSE, metaDone |-> FALSE]

\* no helper called yet
IdleCalc == [pc |-> "idle", args |-> <<>>, result |-> <<>>]

\* no join request, no finished game on the page, no replay mounted
JoinSlots == 1..MaxJoins
IdleJoin == [pc |-> "idle", username |-> "-", team |-> "-"]
NoStats == [winner |-> "-", whiteStats |-> <<>>, blackStats |-> <<>>,
            totalWhiteScore |-> 0, totalBlackScore |-> 0]
IdleStats == [history |-> <<>>, players |-> <<>>, winner |-> "-",
              finalStats |-> NoStats]
IdleReplay == [history |-> <<>>, started |-> FALSE, replayFen |-> STARTING_FEN,
               isImpactFrame |-> FALSE, currentStep |-> 0, timer |-> FALSE]

\* the page as mounted: loading, the board of useState, serverFen "start"
IdleClient ==
  [pc |-> "loading",       \* loading, idle, or waiting for fetch("/api/move")
   fen |-> STARTING_FEN,   \* the Position displayed
   serverFen |-> NoFen,    \* the state serverFen
   closureFen |-> NoFen,   \* serverFen as the running handleMove sees it
   seen |-> 0,             \* events of the channel handled or missed so far
   winner |-> "-",
   players |-> <<>>]       \* the roster the page shows

Init ==
  /\ fenStore = NoFen
  /\ metaStore = NoMeta
  /\ cooldown = {}
  /\ events = <<>>
  /\ req = [p \in Procs |-> IdleReq]
  /\ rematch = IdleRematch
  /\ nRequests = 0
  /\ nRematches = 0
  /\ playersStore = <<>>
  /\ client = IdleClient
  /\ joins = [j \in JoinSlots |-> IdleJoin]
  /\ stats = IdleStats
  /\ replay = IdleReplay
  /\ overlap = [p \in Procs |-> 0]
  /\ calc = IdleCalc

(* ------------------------------------------------------------------ *)
(* POST /api/game/create                                               *)
(* ------------------------------------------------------------------ *)
\* generateGameId yields a fresh id, so the keys of this id do not exist yet
CreateGame ==
  /\ fenStore = NoFen /\ metaStore = NoMeta
  /\ fenStore' = STARTING_FEN
  /\ metaStore' = [status |-> "waiting", winner |-> ""]
  /\ UNCHANGED <<cooldown, events, req, rematch, nRequests, nRematches,
                 playersStore, client, sideVars>>

(* ------------------------------------------------------------------ *)
(* POST /api/move                                                      *)
(* ------------------------------------------------------------------ *)
SubmitRequest(p, text, team, username, limit) ==
  /\ req[p].pc \in {"idle", "done"}
  /\ nRequests < limit
  /\ nRequests' = nRequests + 1
  /\ LET r == [IdleReq EXCEPT !.move = text, !.team = team,
                              !.username = username,
                              !.afterFinish = (metaStore.status = "finished")]
     IN  req' = [req EXCEPT ![p] =
                   IF text = <<>>
                   THEN Respond(r, "missing", Response(FALSE, 400, "Missing fields"))
                   ELSE [r EXCEPT !.pc = "cooldown"]]
  /\ UNCHANGED <<fenStore, metaStore, cooldown, events, rematch, nRematches,
                 playersStore, joins, stats, replay>>

\* a request sent by a client that is not the modelled page
Submit(p, text, team, username, limit) ==
  /\ SubmitRequest(p, text, team, username, limit)
  /\ UNCHANGED <<client, overlap, calc>>

\* the same, with the history kept for the properties: the requests in
\* flight beside each request during its lifetime
SubmitCounted(p, text, team, username, limit) ==
  /\ SubmitRequest(p, text, team, username, limit)
  /\ LET inFlight == {q \in Procs \ {p} : req[q].pc \notin {"idle", "done"}}
     IN  overlap' = [q \in Procs |->
                      IF q = p THEN Cardinality(inFlight)
                      ELSE IF q \in inFlight THEN overlap[q] + 1
                      ELSE overlap[q]]
  /\ UNCHANGED <<client, calc>>

\* the game the modelled requests name, and another game of the same store
GameId == "g1"
OtherGameId == "g2"

\* (mutation) a key that leaves the player's name out
cooldownKeyPerGame(gameId, username) == <<gameId, "*">>

\* `GAME:${gameId}:COOLDOWN:${username}`
cooldownKey(gameId, username) == <<gameId, username>>

CheckCooldown(p) ==
  /\ req[p].pc = "cooldown"
  /\ req' = [req EXCEPT ![p] =
               IF cooldownKey(GameId, req[p].username) \in cooldown
               THEN Respond(@, "cooldown", Response(FALSE, 429, "Cooldown active"))
               ELSE [@ EXCEPT !.pc = "read"]]
  /\ UNCHANGED <<fenStore, metaStore, cooldown, events, rematch,
                 nRequests, nRematches, playersStore, client, sideVars>>

\* (mutation) the status read with the snapshot is not looked at
statusNeverFinished(meta) == FALSE

\* (mutation) only a game that is playing takes moves
statusIsNotPlaying(meta) == meta.status # "playing"

\* the test of the status read with the snapshot
statusIsFinished(meta) == meta.status = "finished"

\* new Chess(fen) accepts a Position only with one king of each colour on
\* the board, and throws otherwise
Kings(fen, color) == {sq \in Squares : fen.board[sq] = Piece("k", color)}
validateFen(fen) ==
  Cardinality(Kings(fen, "w")) = 1 /\ Cardinality(Kings(fen, "b")) = 1

\* what follows Promise.all once both values are there, up to the next await
AfterRead(r) ==
  LET a == Attempt(r.currentFen, r.team, r.move)
  IN  IF r.currentFen = NoFen \/ r.meta = NoMeta
      THEN Respond(r, "notfound", ErrorResponse)
      ELSE IF statusIsFinished(r.meta)
      THEN Respond(r, "finished", Response(FALSE, 400, "Game Over"))
      ELSE IF ~validateFen(r.currentFen)
      THEN Respond(r, "caught", ErrorResponse)
      ELSE IF a.kind = "regicide" THEN [r EXCEPT !.pc = "win"]
      ELSE IF a.kind = "nomatch"
      THEN Respond(r, "nomatch", BusyResponse)
      ELSE [r EXCEPT !.pc = "cas", !.newFen = a.newFen,
                     !.captured = a.captured]

ReadFen(p) ==
  /\ req[p].pc = "read" /\ ~req[p].gotFen
  /\ LET r == [req[p] EXCEPT !.gotFen = TRUE, !.currentFen = fenStore]
     IN  req' = [req EXCEPT ![p] = IF r.gotMeta THEN AfterRead(r) ELSE r]
  /\ UNCHANGED <<fenStore, metaStore, cooldown, events, rematch,
                 nRequests, nRematches, playersStore, client, sideVars>>

ReadMeta(p) ==
  /\ req[p].pc = "read" /\ ~req[p].gotMeta
  /\ LET r == [req[p] EXCEPT !.gotMeta = TRUE, !.meta = metaStore]
     IN  req' = [req EXCEPT ![p] = IF r.gotFen THEN AfterRead(r) ELSE r]
  /\ UNCHANGED <<fenStore, metaStore, cooldown, events, rematch,
                 nRequests, nRematches, playersStore, client, sideVars>>

\* (mutation) the script never refuses
winScriptNeverRefuses(stored) == FALSE

\* winScript: the test on the status field
winScriptRefuses(stored) == stored.status = "finished"

\* the keys of the game as a script finds them
Store ==
  [fen |-> fenStore, meta |-> metaStore, cooldown |-> cooldown,
   players |-> playersStore]

\* (mutation) the script also clears the board away when the game ends
winScriptDeletesFen(store, team) ==
  IF winScriptRefuses(store.meta) THEN [result |-> 0, store |-> store]
  ELSE [result |-> 1,
        store |-> [store EXCEPT !.meta.status = "finished",
                                !.meta.winner = team, !.fen = NoFen]]

\* (mutation) the script records the end of the game without the winner
winScriptStatusOnly(store, team) ==
  IF winScriptRefuses(store.meta) THEN [result |-> 0, store |-> store]
  ELSE [result |-> 1, store |-> [store EXCEPT !.meta.status = "finished"]]

\* winScript with KEYS[1] = metaKey, ARGV[1] = team: its result and the
\* keys as it leaves them
winScript(store, team) ==
  IF winScriptRefuses(store.meta) THEN [result |-> 0, store |-> store]
  ELSE [result |-> 1,
        store |-> [store EXCEPT !.meta.status = "finished",
                                !.meta.winner = team]]

WinClaim(p) ==
  /\ req[p].pc = "win"
  /\ LET winResult == winScript(Store, req[p].team)
     IN  /\ fenStore' = winResult.store.fen
         /\ metaStore' = winResult.store.meta
         /\ cooldown' = winResult.store.cooldown
         /\ playersStore' = winResult.store.players
         /\ req' = [req EXCEPT ![p] =
                      IF winResult.result = 1
                      THEN [@ EXCEPT !.pc = "pubwin", !.wrote = @ + 1]
                      ELSE Respond(@, "lostwin",
                                   Response(FALSE, 400, "Game already over"))]
  /\ UNCHANGED <<events, rematch, nRequests, nRematches, client, sideVars>>

\* pusher.trigger either publishes or throws into the handler's catch
PublishGameOver(p, delivered) ==
  /\ req[p].pc = "pubwin"
  /\ IF delivered
     THEN /\ events' = Append(events, [name |-> "game-over",
                                       fen |-> NoFen, lastMove |-> <<>>,
                                       team |-> req[p].team,
                                       lastMover |-> req[p].username,
                                       captured |-> "k"])
          /\ req' = [req EXCEPT ![p] =
                       Respond(@, "won", WinResponse(req[p].team))]
     ELSE /\ UNCHANGED events
          /\ req' = [req EXCEPT ![p] = Respond(@, "caught", ErrorResponse)]
  /\ UNCHANGED <<fenStore, metaStore, cooldown, rematch, nRequests, nRematches,
                 playersStore, client, sideVars>>

\* (mutation) the script writes without comparing
updateScriptBlindWrite(stored, expected) == TRUE

\* updateScript: the comparison of the stored value with the snapshot
updateScriptAccepts(stored, expected) == stored = expected

\* (mutation) the loop gives up one pass early
loopStopsEarly(attempt) == attempt + 2 < MAX_RETRIES

\* the loop condition, for the pass after `attempt`
loopContinues(attempt) == attempt + 1 < MAX_RETRIES

Commit(p) ==
  /\ req[p].pc = "cas"
  /\ IF updateScriptAccepts(fenStore, req[p].currentFen)
     THEN /\ fenStore' = req[p].newFen
          /\ cooldown' = cooldown \cup {cooldownKey(GameId, req[p].username)}
          /\ req' = [req EXCEPT ![p].pc = "pubmove", ![p].wrote = @ + 1,
                                ![p].marked = TRUE]
     ELSE /\ UNCHANGED <<fenStore, cooldown>>
          /\ req' = [req EXCEPT ![p] =
                       LET r == [@ EXCEPT !.casFailed = @ + 1]
                       IN  IF loopContinues(r.attempt)
                           THEN [r EXCEPT !.pc = "read", !.attempt = @ + 1,
                                          !.gotFen = FALSE, !.gotMeta = FALSE,
                                          !.currentFen = NoFen,
                                          !.meta = NoMeta, !.newFen = NoFen,
                                          !.captured = "-"]
                           ELSE Respond(r, "exhausted", BusyResponse)]
  /\ UNCHANGED <<metaStore, events, rematch, nRequests, nRematches,
                 playersStore, client, sideVars>>

PublishUpdate(p, delivered) ==
  /\ req[p].pc = "pubmove"
  /\ IF delivered
     THEN /\ events' = Append(events, [name |-> "update-board",
                                       fen |-> req[p].newFen,
                                       lastMove |-> req[p].move,
                                       team |-> req[p].team,
                                       lastMover |-> req[p].username,
                                       captured |-> req[p].captured])
          /\ req' = [req EXCEPT ![p] =
                       Respond(@, "moved", Response(TRUE, 200, "-"))]
     ELSE /\ UNCHANGED events
          /\ req' = [req EXCEPT ![p] = Respond(@, "caught", ErrorResponse)]
  /\ UNCHANGED <<fenStore, metaStore, cooldown, rematch, nRequests, nRematches,
                 playersStore, client, sideVars>>

\* the PX expiry of a cooldown marker
ExpireCooldown(u) ==
  /\ cooldownKey(GameId, u) \in cooldown
  /\ cooldown' = cooldown \ {cooldownKey(GameId, u)}
  /\ UNCHANGED <<fenStore, metaStore, events, req, rematch,
                 nRequests, nRematches, playersStore, client, sideVars>>

\* the same handler serving a request that names another game: its update
\* script sets that game's marker of the player, which expires in its turn
OtherGameCommit(u) ==
  /\ cooldownKey(OtherGameId, u) \notin cooldown
  /\ cooldown' = cooldown \cup {cooldownKey(OtherGameId, u)}
  /\ UNCHANGED <<fenStore, metaStore, events, req, rematch,
                 nRequests, nRematches, playersStore, client, sideVars>>

OtherGameExpire(u) ==
  /\ cooldownKey(OtherGameId, u) \in cooldown
  /\ cooldown' = cooldown \ {cooldownKey(OtherGameId, u)}
  /\ UNCHANGED <<fenStore, metaStore, events, req, rematch,
                 nRequests, nRematches, playersStore, client, sideVars>>

(* ------------------------------------------------------------------ *)
(* POST /api/game/join                                                 *)
(* ------------------------------------------------------------------ *)
\* the name check, the push onto the list and the player-joined event, taken
\* as one step
JoinGame(username, team) ==
  /\ Len(playersStore) < MaxPlayers
  /\ \A i \in DOMAIN playersStore : playersStore[i].username # username
  /\ playersStore' = Append(playersStore, [username |-> username, team |-> team])
  /\ events' = Append(events, [name |-> "player-joined",
                               username |-> username, team |-> team])
  /\ UNCHANGED <<fenStore, metaStore, cooldown, req, rematch,
                 nRequests, nRematches, client, sideVars>>

\* the join handler as its awaits divide it: the request arrives, the list
\* is read and the name looked for, the player is pushed, the event published
JoinRequest(j, username, team) ==
  /\ joins[j].pc = "idle"
  /\ joins' = [joins EXCEPT ![j] = [pc |-> "check", username |-> username,
                                    team |-> team]]
  /\ UNCHANGED <<fenStore, metaStore, cooldown, events, req, rematch,
                 nRequests, nRematches, playersStore, client, stats, replay,
                 overlap, calc>>

\* String.prototype.toLowerCase on the names a join request may carry
toLowerCase(name) == IF name = "Ann" THEN "ann" ELSE name

JoinCheck(j) ==
  /\ joins[j].pc = "check"
  /\ LET isTaken == \E i \in DOMAIN playersStore :
                      toLowerCase(playersStore[i].username) =
                        toLowerCase(joins[j].username)
     IN  joins' = [joins EXCEPT ![j].pc = IF isTaken THEN "taken" ELSE "push"]
  /\ UNCHANGED <<fenStore, metaStore, cooldown, events, req, rematch,
                 nRequests, nRematches, playersStore, client, stats, replay,
                 overlap, calc>>

JoinPush(j) ==
  /\ joins[j].pc = "push"
  /\ playersStore' = Append(playersStore, [username |-> joins[j].username,
                                           team |-> joins[j].team])
  /\ joins' = [joins EXCEPT ![j].pc = "publish"]
  /\ UNCHANGED <<fenStore, metaStore, cooldown, events, req, rematch,
                 nRequests, nRematches, client, stats, replay,
                 overlap, calc>>

JoinPublish(j) ==
  /\ joins[j].pc = "publish"
  /\ events' = Append(events, [name |-> "player-joined",
                               username |-> joins[j].username,
                               team |-> joins[j].team])
  /\ joins' = [joins EXCEPT ![j].pc = "joined"]
  /\ UNCHANGED <<fenStore, metaStore, cooldown, req, rematch,
                 nRequests, nRematches, playersStore, client, stats, replay,
                 overlap, calc>>

(* ------------------------------------------------------------------ *)
(* The game page of a subscribed client                                *)
(* ------------------------------------------------------------------ *)
REGICIDE == <<"R", "E", "G", "I", "C", "I", "D", "E">>

\* the move history a client holds after the channel has handed it the
\* events evs, one after the other, since it opened the page
RECURSIVE moveHistory(_)
moveHistory(evs) ==
  IF evs = <<>> THEN <<>>
  ELSE LET prev == moveHistory(SubSeq(evs, 1, Len(evs) - 1))
           data == evs[Len(evs)]
       IN  CASE data.name = "update-board" ->
                  Append(prev, [move |-> data.lastMove,
                                username |-> data.lastMover,
                                team |-> data.team,
                                captured |-> data.captured])
             [] data.name = "game-over" ->
                  IF data.captured = "k"
                  THEN Append(prev, [move |-> REGICIDE,
                                     username |-> data.lastMover,
                                     team |-> data.team,
                                     captured |-> "k"])
                  ELSE prev
             [] data.name = "game-reset" -> <<>>
             [] OTHER -> prev

\* chess.move(text): the legal move the text names in SAN or by its squares
moveFromText(game, text) ==
  find({m \in moves(game) :
          cleanMove(text) \in {cleanMove(m.san), cleanMove(m.lan)}})

\* handleMove, the optimistic update: the move on the displayed Position
\* with the side forced, tried again without the own king when refused
OptimisticUpdate(fen, myTeam, moveCommand) ==
  LET forcedGame == ForceTurn(fen, myTeam)
      first == moveFromText(forcedGame, moveCommand)
      myKingPos == findKing(forcedGame, myTeam)
      shadow == remove(forcedGame, myKingPos)
      second == moveFromText(shadow, moveCommand)
  IN  IF first # NoMove
      THEN [optimisticSuccess |-> TRUE, fen |-> move(forcedGame, first)]
      ELSE IF myKingPos # NoSquare /\ second # NoMove
      THEN [optimisticSuccess |-> TRUE,
            fen |-> put(move(shadow, second),
                        forcedGame.board[myKingPos], myKingPos)]
      ELSE [optimisticSuccess |-> FALSE, fen |-> forcedGame]

\* the page of ann, who plays white and whose requests use slot 1
ClientSlot == 1
ClientTeam == "w"

\* fetchGameState has its answer; the channel is subscribed from then on
FetchGameState ==
  /\ client.pc = "loading"
  /\ fenStore # NoFen /\ validateFen(fenStore)
  /\ client' = [client EXCEPT !.pc = "idle", !.fen = fenStore,
                              !.serverFen = fenStore, !.seen = Len(events),
                              !.players = playersStore,
                              !.winner = IF metaStore.status = "finished"
                                         THEN metaStore.winner ELSE "-"]
  /\ UNCHANGED <<fenStore, metaStore, cooldown, events, req, rematch,
                 nRequests, nRematches, playersStore, sideVars>>

\* the channel hands the page its next event
ReceiveEvent ==
  /\ client.pc # "loading"
  /\ client.seen < Len(events)
  /\ LET data == events[client.seen + 1]
         c == [client EXCEPT !.seen = @ + 1]
     IN  client' =
           CASE data.name = "update-board" ->
                  IF validateFen(data.fen)
                  THEN [c EXCEPT !.serverFen = data.fen, !.fen = data.fen]
                  ELSE [c EXCEPT !.serverFen = data.fen]
             [] data.name = "game-over" -> [c EXCEPT !.winner = data.team]
             [] data.name = "game-reset" ->
                  [c EXCEPT !.winner = "-", !.fen = data.fen,
                            !.serverFen = data.fen]
             [] data.name = "player-joined" ->
                  [c EXCEPT !.players =
                     Append(@, [username |-> data.username,
                                team |-> data.team])]
             [] OTHER -> c
  /\ UNCHANGED <<fenStore, metaStore, cooldown, events, req, rematch,
                 nRequests, nRematches, playersStore, sideVars>>

\* handleMove up to its fetch: the preview is displayed and the request sent
HandleMove(moveCommand, limit) ==
  LET preview == OptimisticUpdate(client.fen, ClientTeam, moveCommand)
  IN  /\ client.pc = "idle"
      /\ client.winner = "-"
      /\ preview.optimisticSuccess
      /\ client' = [client EXCEPT !.pc = "waiting", !.fen = preview.fen,
                                  !.closureFen = client.serverFen]
      /\ SubmitRequest(ClientSlot, moveCommand, ClientTeam,
                       UserOf(ClientSlot), limit)
      /\ UNCHANGED <<overlap, calc>>

\* handleMove after its fetch: a rejection puts serverFen, as the handler
\* that sent the request holds it, back on display
HandleMoveResponse ==
  /\ client.pc = "waiting"
  /\ req[ClientSlot].pc = "done"
  /\ client' = IF req[ClientSlot].response.status = 200
               THEN [client EXCEPT !.pc = "idle"]
               ELSE [client EXCEPT !.pc = "idle", !.fen = client.closureFen]
  /\ UNCHANGED <<fenStore, metaStore, cooldown, events, req, rematch,
                 nRequests, nRematches, playersStore, sideVars>>

(* ------------------------------------------------------------------ *)
(* calculateGameStats                                                  *)
(* ------------------------------------------------------------------ *)
\* (mutation) the king counts as a queen
POINTSKingAsQueen(kind) ==
  CASE kind = "p" -> 1 [] kind = "n" -> 3 [] kind = "b" -> 3
    [] kind = "r" -> 5 [] kind = "q" -> 9 [] kind = "k" -> 9
    [] OTHER -> 0

\* POINTS[kind]; 0 stands for undefined
POINTS(kind) ==
  CASE kind = "p" -> 1 [] kind = "n" -> 3 [] kind = "b" -> 3
    [] kind = "r" -> 5 [] kind = "q" -> 9 [] kind = "k" -> 25
    [] OTHER -> 0

\* statsMap is kept as the sequence of its values in insertion order
NewStat(p) ==
  [username |-> p.username, team |-> p.team, rank |-> 0, moves |-> 0,
   score |-> 0, kills |-> <<>>, badges |-> <<>>]

\* statsMap.set(stat.username, stat): a key already there keeps its place
mapSet(statsMap, stat) ==
  IF \E i \in DOMAIN statsMap : statsMap[i].username = stat.username
  THEN [i \in DOMAIN statsMap |->
          IF statsMap[i].username = stat.username THEN stat ELSE statsMap[i]]
  ELSE Append(statsMap, stat)

\* 1. Initialize
RECURSIVE initialize(_)
initialize(players) ==
  IF players = <<>> THEN <<>>
  ELSE mapSet(initialize(SubSeq(players, 1, Len(players) - 1)),
              NewStat(players[Len(players)]))

\* the body of history.forEach for one log, after the kingslayer test
processLog(statsMap, log) ==
  [i \in DOMAIN statsMap |->
     IF statsMap[i].username # log.username THEN statsMap[i]
     ELSE LET stat == [statsMap[i] EXCEPT !.moves = @ + 1]
          IN  IF log.captured # "-" /\ POINTS(log.captured) # 0
              THEN [stat EXCEPT !.kills = Append(@, log.captured),
                                !.score = @ + POINTS(log.captured)]
              ELSE stat]

\* 2. Process History
RECURSIVE processHistory(_, _)
processHistory(statsMap, history) ==
  IF history = <<>> THEN statsMap
  ELSE processLog(processHistory(statsMap,
                                 SubSeq(history, 1, Len(history) - 1)),
                  history[Len(history)])

\* (mutation) the first king capture names the kingslayer
kingslayerFirst(history) ==
  LET ks == {i \in DOMAIN history : history[i].captured = "k"}
  IN  IF ks = {} THEN ""
      ELSE history[CHOOSE i \in ks : \A j \in ks : i <= j].username

\* kingslayerName after the loop; "" stands for null
kingslayerName(history) ==
  LET ks == {i \in DOMAIN history : history[i].captured = "k"}
  IN  IF ks = {} THEN ""
      ELSE history[CHOOSE i \in ks : \A j \in ks : j <= i].username

\* Score DESC, then Moves ASC
sortFn(a, b) ==
  IF b.score # a.score THEN b.score - a.score ELSE a.moves - b.moves

\* Array.prototype.sort(sortFn): a stable sort
RECURSIVE sort(_)
sort(arr) ==
  IF Len(arr) <= 1 THEN arr
  ELSE LET x == arr[Len(arr)]
           before == sort(SubSeq(arr, 1, Len(arr) - 1))
           keep == {i \in DOMAIN before : sortFn(before[i], x) <= 0}
           k == IF keep = {} THEN 0
                ELSE CHOOSE i \in keep : \A j \in keep : j <= i
       IN  SubSeq(before, 1, k) \o <<x>> \o SubSeq(before, k + 1, Len(before))

filterTeam(allStats, team) ==
  LET onTeam(s) == s.team = team
  IN  SelectSeq(allStats, onTeam)

Push(badges, cond, badge) == IF cond THEN Append(badges, badge) ELSE badges

\* (mutation) the random draw decides the GHOST badge as well
assignBadgesRandomGhost(stat, index, isWinnerTeam, maxMoves, slayer, draw) ==
  LET b1 == Push(<<>>, stat.username = slayer, "KINGSLAYER")
      b2 == Push(b1, isWinnerTeam /\ index = 0 /\ stat.score > 0, "MVP")
      b3 == Push(b2, ~isWinnerTeam /\ index = 0 /\ stat.score > 10, "WARLORD")
      b4 == Push(b3, stat.moves = maxMoves /\ stat.moves > 5, "SPRINTER")
      b5 == Push(b4, stat.score >= 9 /\ stat.moves < 10, "SNIPER")
      b6 == Push(b5, stat.moves > 8 /\ stat.score = 0, "PACIFIST")
      b7 == Push(b6, /\ stat.moves > 5 /\ stat.score = 0
                     /\ \A i \in DOMAIN b6 : b6[i] # "PACIFIST"
                     /\ draw, "BRICK")
  IN  Push(b7, stat.moves < 2 /\ draw, "GHOST")

\* the badges pushed for one stat of a team list; index counts from 0, draw
\* is whether Math.random() > 0.8 for this stat
assignBadges(stat, index, isWinnerTeam, maxMoves, slayer, draw) ==
  LET b1 == Push(<<>>, stat.username = slayer, "KINGSLAYER")
      b2 == Push(b1, isWinnerTeam /\ index = 0 /\ stat.score > 0, "MVP")
      b3 == Push(b2, ~isWinnerTeam /\ index = 0 /\ stat.score > 10, "WARLORD")
      b4 == Push(b3, stat.moves = maxMoves /\ stat.moves > 5, "SPRINTER")
      b5 == Push(b4, stat.score >= 9 /\ stat.moves < 10, "SNIPER")
      b6 == Push(b5, stat.moves > 8 /\ stat.score = 0, "PACIFIST")
      b7 == Push(b6, /\ stat.moves > 5 /\ stat.score = 0
                     /\ \A i \in DOMAIN b6 : b6[i] # "PACIFIST"
                     /\ draw, "BRICK")
  IN  Push(b7, stat.moves < 2, "GHOST")

\* 4. Assign Badges and the ranks, for one team list
teamBadges(teamStats, winner, slayer, random) ==
  LET isWinnerTeam == Len(teamStats) > 0 /\ teamStats[1].team = winner
      maxMoves == IF teamStats = <<>> THEN -1
                  ELSE CHOOSE m \in {teamStats[i].moves : i \in DOMAIN teamStats} :
                         \A i \in DOMAIN teamStats : teamStats[i].moves <= m
  IN  [i \in DOMAIN teamStats |->
         [teamStats[i] EXCEPT
            !.badges = assignBadges(teamStats[i], i - 1, isWinnerTeam,
                                    maxMoves, slayer,
                                    random[teamStats[i].username]),
            !.rank = i]]

RECURSIVE sumScore(_)
sumScore(teamStats) ==
  IF teamStats = <<>> THEN 0
  ELSE sumScore(Tail(teamStats)) + Head(teamStats).score

\* calculateGameStats(history, players, winner), with random[u] the outcome
\* of Math.random() > 0.8 where it is asked for the stat of u: the value
\* returned, and the two argument arrays as the call leaves them
calculateGameStats(history, players, winner, random) ==
  LET allStats == processHistory(initialize(players), history)
      slayer == kingslayerName(history)
      whiteStats == teamBadges(sort(filterTeam(allStats, "w")), winner,
                               slayer, random)
      blackStats == teamBadges(sort(filterTeam(allStats, "b")), winner,
                               slayer, random)
  IN  [result |-> [winner |-> winner, whiteStats |-> whiteStats,
                   blackStats |-> blackStats,
                   totalWhiteScore |-> sumScore(whiteStats),
                   totalBlackScore |-> sumScore(blackStats)],
       history |-> history,
       players |-> players]

\* the page's effect: finalStats from the history, the roster, the winner
CalculateStats(random) ==
  /\ stats.winner # "-" /\ Len(stats.players) > 0
  /\ LET call == calculateGameStats(stats.history, stats.players,
                                    stats.winner, random)
     IN  stats' = [stats EXCEPT !.finalStats = call.result,
                                !.history = call.history,
                                !.players = call.players]
  /\ UNCHANGED <<fenStore, metaStore, cooldown, events, req, rematch,
                 nRequests, nRematches, playersStore, client, joins, replay,
                 overlap, calc>>

\* (mutation) the killer's king is not put back after the search
impactFenKingLeftOut(moveLog, shown) ==
  LET game == IF moveLog.fen = NoFen THEN STARTING_FEN ELSE moveLog.fen
      killerTeam == moveLog.team
      victimTeam == Other(killerTeam)
      victimKingPos == findKing(game, victimTeam)
      killerKingPos == findKing(game, killerTeam)
      g1 == IF killerKingPos # NoSquare THEN remove(game, killerKingPos)
            ELSE game
      g2 == put(remove(g1, victimKingPos), Piece("q", victimTeam),
                victimKingPos)
      killMove == find({m \in moves(g2) : m.to = victimKingPos})
      g3 == put(remove(g2, victimKingPos), Piece("k", victimTeam),
                victimKingPos)
      killerPiece == g3.board[killMove.from]
      g4 == IF killMove # NoMove
            THEN put(remove(remove(g3, killMove.from), victimKingPos),
                     killerPiece, victimKingPos)
            ELSE remove(g3, victimKingPos)
      g5 == g4
  IN  IF moveLog.fen # NoFen /\ ~validateFen(moveLog.fen)
      THEN moveLog.fen
      ELSE IF victimKingPos = NoSquare THEN moveLog.fen
      ELSE g5

(* ------------------------------------------------------------------ *)
(* useCinematicReplay                                                  *)
(* ------------------------------------------------------------------ *)
\* the final-frame logic for a log with captured 'k' or move 'REGICIDE':
\* the Position set on display. new Chess(undefined) is the starting
\* Position; new Chess of a Position without a king throws, and the catch
\* displays moveLog.fen
impactFen(moveLog, shown) ==
  LET game == IF moveLog.fen = NoFen THEN STARTING_FEN ELSE moveLog.fen
      killerTeam == moveLog.team
      victimTeam == Other(killerTeam)
      victimKingPos == findKing(game, victimTeam)
      killerKingPos == findKing(game, killerTeam)
      g1 == IF killerKingPos # NoSquare THEN remove(game, killerKingPos)
            ELSE game
      g2 == put(remove(g1, victimKingPos), Piece("q", victimTeam),
                victimKingPos)
      killMove == find({m \in moves(g2) : m.to = victimKingPos})
      g3 == put(remove(g2, victimKingPos), Piece("k", victimTeam),
                victimKingPos)
      killerPiece == g3.board[killMove.from]
      g4 == IF killMove # NoMove
            THEN put(remove(remove(g3, killMove.from), victimKingPos),
                     killerPiece, victimKingPos)
            ELSE remove(g3, victimKingPos)
      g5 == IF killerKingPos # NoSquare /\ g4.board[killerKingPos] = NoPiece
            THEN put(g4, Piece("k", killerTeam), killerKingPos)
            ELSE g4
  IN  IF moveLog.fen # NoFen /\ ~validateFen(moveLog.fen)
      THEN moveLog.fen
      ELSE IF victimKingPos = NoSquare THEN moveLog.fen
      ELSE g5

\* the effect of the hook for a history that is not empty: back to the
\* start, the first timer set
StartReplay ==
  /\ ~replay.started
  /\ Len(replay.history) # 0
  /\ replay' = [replay EXCEPT
       !.started = TRUE,
       !.replayFen = IF replay.history[1].fen = NoFen THEN STARTING_FEN
                     ELSE replay.history[1].fen,
       !.isImpactFrame = FALSE,
       !.currentStep = 0,
       !.timer = TRUE]
  /\ UNCHANGED <<fenStore, metaStore, cooldown, events, req, rematch,
                 nRequests, nRematches, playersStore, client, joins, stats,
                 overlap, calc>>

\* the timer fires: playNextMove
playNextMove ==
  /\ replay.timer
  /\ LET n == Len(replay.history)
         moveLog == replay.history[replay.currentStep + 1]
         isFinalFrame == replay.currentStep = n - 1
     IN  replay' =
           IF replay.currentStep >= n THEN [replay EXCEPT !.timer = FALSE]
           ELSE IF moveLog.captured = "k" \/ moveLog.move = REGICIDE
           THEN [replay EXCEPT
                   !.replayFen = LET f == impactFen(moveLog, @)
                                 IN  IF f = NoFen THEN @ ELSE f,
                   !.isImpactFrame = TRUE,
                   !.currentStep = @ + 1,
                   !.timer = ~isFinalFrame]
           ELSE [replay EXCEPT
                   !.replayFen = IF moveLog.fen # NoFen THEN moveLog.fen
                                 ELSE @,
                   !.isImpactFrame = FALSE,
                   !.currentStep = @ + 1,
                   !.timer = ~isFinalFrame]
  /\ UNCHANGED <<fenStore, metaStore, cooldown, events, req, rematch,
                 nRequests, nRematches, playersStore, client, joins, stats,
                 overlap, calc>>

(* ------------------------------------------------------------------ *)
(* POST /api/game/rematch                                              *)
(* ------------------------------------------------------------------ *)
StartRematch ==
  /\ rematch.pc = "idle"
  /\ nRematches < MaxRematches
  /\ nRematches' = nRematches + 1
  /\ rematch' = [IdleRematch EXCEPT !.pc = "writing"]
  /\ UNCHANGED <<fenStore, metaStore, cooldown, events, req, nRequests,
                 playersStore, client, sideVars>>

RematchAfterWrite(r) ==
  IF r.fenDone /\ r.metaDone THEN [IdleRematch EXCEPT !.pc = "publish"] ELSE r

RematchSetFen ==
  /\ rematch.pc = "writing" /\ ~rematch.fenDone
  /\ fenStore' = STARTING_FEN
  /\ rematch' = RematchAfterWrite([rematch EXCEPT !.fenDone = TRUE])
  /\ UNCHANGED <<metaStore, cooldown, events, req, nRequests, nRematches,
                 playersStore, client, sideVars>>

\* (mutation) the reset sends the game back to the lobby
RematchMetaWaiting == [status |-> "waiting", winner |-> ""]

\* hset(metaKey, { status: "playing", winner: "" })
RematchMeta == [status |-> "playing", winner |-> ""]

RematchSetMeta ==
  /\ rematch.pc = "writing" /\ ~rematch.metaDone
  /\ metaStore' = RematchMeta
  /\ rematch' = RematchAfterWrite([rematch EXCEPT !.metaDone = TRUE])
  /\ UNCHANGED <<fenStore, cooldown, events, req, nRequests, nRematches,
                 playersStore, client, sideVars>>

RematchPublish(delivered) ==
  /\ rematch.pc = "publish"
  /\ rematch' = IdleRematch
  /\ events' = IF delivered
               THEN Append(events, [name |-> "game-reset",
                                    fen |-> STARTING_FEN,
                                    lastMove |-> <<>>, team |-> "-",
                                    lastMover |-> "-", captured |-> "-"])
               ELSE events
  /\ UNCHANGED <<fenStore, metaStore, cooldown, req, nRequests, nRematches,
                 playersStore, client, sideVars>>

SubmitOne ==
  \E p \in Procs, s \in Submissions :
    Submit(p, s.move, s.team, UserOf(p), MaxRequests)

Next ==
  \/ CreateGame
  \/ SubmitOne
  \/ \E p \in Procs : CheckCooldown(p)
  \/ \E p \in Procs : ReadFen(p)
  \/ \E p \in Procs : ReadMeta(p)
  \/ \E p \in Procs : WinClaim(p)
  \/ \E p \in Procs, delivered \in BOOLEAN : PublishGameOver(p, delivered)
  \/ \E p \in Procs : Commit(p)
  \/ \E p \in Procs, delivered \in BOOLEAN : PublishUpdate(p, delivered)
  \/ \E u \in Users : ExpireCooldown(u)

Spec == Init /\ [][Next]_vars

\* the same with rematch requests, on fewer submissions
SubmitRematchOne ==
  \E p \in Procs, s \in RematchSubmissions :
    Submit(p, s.move, s.team, UserOf(p), RematchRequests)

NextRematch ==
  \/ CreateGame
  \/ SubmitRematchOne
  \/ \E p \in Procs : CheckCooldown(p)
  \/ \E p \in Procs : ReadFen(p)
  \/ \E p \in Procs : ReadMeta(p)
  \/ \E p \in Procs : WinClaim(p)
  \/ \E p \in Procs, delivered \in BOOLEAN : PublishGameOver(p, delivered)
  \/ \E p \in Procs : Commit(p)
  \/ \E p \in Procs, delivered \in BOOLEAN : PublishUpdate(p, delivered)
  \/ \E u \in Users : ExpireCooldown(u)
  \/ StartRematch
  \/ RematchSetFen
  \/ RematchSetMeta
  \/ \E delivered \in BOOLEAN : RematchPublish(delivered)

SpecRematch == Init /\ [][NextRematch]_vars

\* contention: one submission against a run of commits by another player,
\* with every event delivered
SubmitBusyOne ==
  \E p \in Procs : \E s \in BusySubmissions(p) :
    Submit(p, s.move, s.team, UserOf(p), BusyRequests)

NextBusy ==
  \/ CreateGame
  \/ SubmitBusyOne
  \/ \E p \in Procs : CheckCooldown(p)
  \/ \E p \in Procs : ReadFen(p)
  \/ \E p \in Procs : ReadMeta(p)
  \/ \E p \in Procs : Commit(p)
  \/ \E p \in Procs : PublishUpdate(p, TRUE)
  \/ \E u \in Users : ExpireCooldown(u)

SpecBusy == Init /\ [][NextBusy]_vars

\* the same submissions, the overlaps of each request counted
SubmitRetryOne ==
  \E p \in Procs : \E s \in BusySubmissions(p) :
    SubmitCounted(p, s.move, s.team, UserOf(p), BusyRequests)

NextRetry ==
  \/ CreateGame
  \/ SubmitRetryOne
  \/ \E p \in Procs : CheckCooldown(p)
  \/ \E p \in Procs : ReadFen(p)
  \/ \E p \in Procs : ReadMeta(p)
  \/ \E p \in Procs : Commit(p)
  \/ \E p \in Procs : PublishUpdate(p, TRUE)
  \/ \E u \in Users : ExpireCooldown(u)

SpecRetry == Init /\ [][NextRetry]_vars

\* the win claim beside joins and commits, every event delivered
SubmitWinOne ==
  \E p \in Procs, s \in RematchSubmissions :
    Submit(p, s.move, s.team, UserOf(p), WinRequests)

NextWin ==
  \/ CreateGame
  \/ \E u \in Users, team \in Teams : JoinGame(u, team)
  \/ SubmitWinOne
  \/ \E p \in Procs : CheckCooldown(p)
  \/ \E p \in Procs : ReadFen(p)
  \/ \E p \in Procs : ReadMeta(p)
  \/ \E p \in Procs : WinClaim(p)
  \/ \E p \in Procs : PublishGameOver(p, TRUE)
  \/ \E p \in Procs : Commit(p)
  \/ \E p \in Procs : PublishUpdate(p, TRUE)
  \/ \E u \in Users : ExpireCooldown(u)

SpecWin == Init /\ [][NextWin]_vars

\* the shadow board and the manual execution: moves that only match with the
\* submitter's own king off the board
SubmitShadowOne ==
  \E p \in Procs, s \in ShadowSubmissions :
    Submit(p, s.move, s.team, UserOf(p), ShadowRequests)

NextShadow ==
  \/ CreateGame
  \/ SubmitShadowOne
  \/ \E p \in Procs : CheckCooldown(p)
  \/ \E p \in Procs : ReadFen(p)
  \/ \E p \in Procs : ReadMeta(p)
  \/ \E p \in Procs : Commit(p)
  \/ \E p \in Procs : PublishUpdate(p, TRUE)
  \/ \E u \in Users : ExpireCooldown(u)

SpecShadow == Init /\ [][NextShadow]_vars

\* the page of one player beside the requests of another
ClientTexts == {Rb1c1, Rc1b1}
OtherSubmissions == { [move |-> Rb3b2, team |-> "b"] }

NextClient ==
  \/ CreateGame
  \/ FetchGameState
  \/ ReceiveEvent
  \/ \E text \in ClientTexts : HandleMove(text, ClientRequests)
  \/ HandleMoveResponse
  \/ \E s \in OtherSubmissions :
       Submit(2, s.move, s.team, UserOf(2), ClientRequests)
  \/ \E p \in Procs : CheckCooldown(p)
  \/ \E p \in Procs : ReadFen(p)
  \/ \E p \in Procs : ReadMeta(p)
  \/ \E p \in Procs : Commit(p)
  \/ \E p \in Procs, delivered \in BOOLEAN : PublishUpdate(p, delivered)
  \/ \E u \in Users : ExpireCooldown(u)

SpecClient == Init /\ [][NextClient]_vars

\* the replay of a finished game's history: logs as the page builds them,
\* without a Position, and logs that carry the Position they led to (for a
\* king capture: the Position it was made in)
AfterRb1c1 == move(STARTING_FEN, moveFromText(STARTING_FEN, Rb1c1))
\* Positions a king capture by the white king was made in: the kings on
\* neighbouring squares, the king the only attacker or a rook attacking too
KingsAdjacent ==
  { ForceTurn(Position(<<2, 2>> :> Piece("k", "w")
                         @@ <<3, 3>> :> Piece("k", "b")
                         @@ <<1, 3>> :> Piece("r", "b")), "w"),
    ForceTurn(Position(<<2, 2>> :> Piece("k", "w")
                         @@ <<3, 1>> :> Piece("r", "w")
                         @@ <<3, 3>> :> Piece("k", "b")), "w") }
ReplayLogs ==
  { [move |-> Rb1c1, username |-> "ann", team |-> "w", captured |-> "-",
     fen |-> f] : f \in {NoFen, STARTING_FEN, AfterRb1c1} }
  \cup
  { [move |-> REGICIDE, username |-> "ann", team |-> "w", captured |-> "k",
     fen |-> f] : f \in {NoFen, ForceTurn(AfterRb1c1, "w"), AfterRb1c1}
                      \cup KingsAdjacent }
ReplayHistories == UNION { [1..n -> ReplayLogs] : n \in 1..MaxReplay }

InitReplay ==
  /\ fenStore = NoFen
  /\ metaStore = NoMeta
  /\ cooldown = {}
  /\ events = <<>>
  /\ req = [p \in Procs |-> IdleReq]
  /\ rematch = IdleRematch
  /\ nRequests = 0
  /\ nRematches = 0
  /\ playersStore = <<>>
  /\ client = IdleClient
  /\ joins = [j \in JoinSlots |-> IdleJoin]
  /\ stats = IdleStats
  /\ \E h \in ReplayHistories : replay = [IdleReplay EXCEPT !.history = h]
  /\ overlap = [p \in Procs |-> 0]
  /\ calc = IdleCalc

NextReplay == StartReplay \/ playNextMove

SpecReplay == InitReplay /\ [][NextReplay]_vars

\* the replay's timing on its own. A delay is a number of milliseconds kept
\* as a fraction, fastDuration / (n - 3) being no whole number in general
TOTAL_DURATION == 8000
SLOW_MO_DURATION == 1500
Ms(k) == [num |-> k, den |-> 1]
\* Math.max of two fractions
MathMax(a, b) == IF a.num * b.den >= b.num * a.den THEN a ELSE b
fastDuration == MathMax(Ms(1000), Ms(TOTAL_DURATION - SLOW_MO_DURATION)).num
fastDelay(n) ==
  MathMax(Ms(50), IF n > 3 THEN [num |-> fastDuration, den |-> n - 3]
                  ELSE Ms(500))
slowDelay == 600
\* the delay playNextMove passes to setTimeout after the frame currentStep
nextDelay(n, currentStep) ==
  LET isSlowMo == currentStep >= n - 3
  IN  IF isSlowMo THEN Ms(slowDelay) ELSE fastDelay(n)
\* the timers set over a whole replay, after each frame that is not final
Timers(n) == [i \in 1..(n - 1) |-> nextDelay(n, i - 1)]

InitTiming ==
  /\ fenStore = NoFen
  /\ metaStore = NoMeta
  /\ cooldown = {}
  /\ events = <<>>
  /\ req = [p \in Procs |-> IdleReq]
  /\ rematch = IdleRematch
  /\ nRequests = 0
  /\ nRematches = 0
  /\ playersStore = <<>>
  /\ client = IdleClient
  /\ joins = [j \in JoinSlots |-> IdleJoin]
  /\ stats = IdleStats
  /\ replay = IdleReplay
  /\ overlap = [p \in Procs |-> 0]
  /\ \E n \in 1..MaxLog : calc = [IdleCalc EXCEPT !.args = <<n>>]

\* the replay of a history of n entries run to its last frame
RunTimers ==
  /\ calc.pc = "idle"
  /\ calc' = [calc EXCEPT !.pc = "done", !.result = Timers(calc.args[1])]
  /\ UNCHANGED <<fenStore, metaStore, cooldown, events, req, rematch,
                 nRequests, nRematches, playersStore, client, joins, stats,
                 replay, overlap>>

SpecTiming == InitTiming /\ [][RunTimers]_vars

\* isMoveMatch on its own: Move objects as the engine lists them on the full
\* board (quiet moves, captures, checks, a disambiguated move, pawn moves and
\* promotions) and texts a player may type
MatchMoves ==
  { [piece |-> "r", from |-> <<2, 1>>, to |-> <<3, 1>>, promotion |-> "-",
     san |-> <<"R", "c", "1">>, lan |-> <<"b", "1", "c", "1">>],
    [piece |-> "r", from |-> <<3, 1>>, to |-> <<3, 3>>, promotion |-> "-",
     san |-> <<"R", "x", "c", "3", "+">>, lan |-> <<"c", "1", "c", "3">>],
    [piece |-> "n", from |-> <<2, 1>>, to |-> <<4, 2>>, promotion |-> "-",
     san |-> <<"N", "b", "d", "2">>, lan |-> <<"b", "1", "d", "2">>],
    [piece |-> "p", from |-> <<5, 2>>, to |-> <<5, 4>>, promotion |-> "-",
     san |-> <<"e", "4">>, lan |-> <<"e", "2", "e", "4">>],
    [piece |-> "p", from |-> <<5, 4>>, to |-> <<4, 5>>, promotion |-> "-",
     san |-> <<"e", "x", "d", "5">>, lan |-> <<"e", "4", "d", "5">>],
    [piece |-> "p", from |-> <<1, 7>>, to |-> <<1, 8>>, promotion |-> "q",
     san |-> <<"a", "8", "=", "Q">>, lan |-> <<"a", "7", "a", "8", "q">>],
    [piece |-> "p", from |-> <<2, 7>>, to |-> <<1, 8>>, promotion |-> "q",
     san |-> <<"b", "x", "a", "8", "=", "Q", "#">>, lan |-> <<"b", "7", "a", "8", "q">>],
    [piece |-> "b", from |-> <<6, 1>>, to |-> <<3, 4>>, promotion |-> "-",
     san |-> <<"B", "c", "4">>, lan |-> <<"f", "1", "c", "4">>],
    [piece |-> "k", from |-> <<5, 1>>, to |-> <<5, 2>>, promotion |-> "-",
     san |-> <<"K", "e", "2">>, lan |-> <<"e", "1", "e", "2">>] }
MatchTexts ==
  { <<"b", "1", "c", "1">>, <<"R", "c", "1">>, <<"r", "c", "1">>,
    <<"R", "b", "c", "1">>, <<"R", "1", "c", "1">>, <<"R", "b", "1", "c", "1">>,
    <<"R", "x", "c", "3", "+">>, <<"R", "c", "3">>, <<"c", "1", "c", "3">>,
    <<"R", "c", "c", "3">>, <<"N", "b", "d", "2">>, <<"N", "b", "d">>,
    <<"N", "1", "d", "2">>, <<"N", "b", "1", "d", "2">>, <<"n", "d", "2">>,
    <<"e", "4">>, <<"e", "2", "e", "4">>, <<"e", "2", "e">>,
    <<"p", "e", "2", "e", "4">>, <<"P", "e", "e", "4">>, <<"e", "x", "d", "5">>,
    <<"e", "d", "5">>, <<"e", "4", "d", "5">>, <<"a", "8", "=", "Q">>,
    <<"a", "8">>, <<"a", "8", "q">>, <<"a", "7", "a", "8">>,
    <<"a", "7", "a", "8", "q">>, <<"a", "7", "a">>, <<"A", "7", "A", "8">>,
    <<"b", "x", "a", "8", "=", "Q", "#">>, <<"b", "a", "8">>, <<"b", "x", "a", "8">>,
    <<"b", "a", "8", "q">>, <<"b", "7", "a", "8">>, <<"b", "a">>, <<"R", "X", "c", "3">>,
    <<"B", "c", "4">>, <<"b", "c", "4">>, <<"B", "f", "c", "4">>,
    <<"f", "1", "c", "4">>, <<"K", "e", "2">>, <<"k", "e", "1", "e", "2">>,
    <<"K", "1", "e", "2">>, <<"e", "1", "e", "2">>, <<"Q", "e", "2">> }

InitMatch ==
  /\ fenStore = NoFen
  /\ metaStore = NoMeta
  /\ cooldown = {}
  /\ events = <<>>
  /\ req = [p \in Procs |-> IdleReq]
  /\ rematch = IdleRematch
  /\ nRequests = 0
  /\ nRematches = 0
  /\ playersStore = <<>>
  /\ client = IdleClient
  /\ joins = [j \in JoinSlots |-> IdleJoin]
  /\ stats = IdleStats
  /\ replay = IdleReplay
  /\ overlap = [p \in Procs |-> 0]
  /\ \E text \in MatchTexts, m \in MatchMoves :
       calc = [IdleCalc EXCEPT !.args = <<text, m>>]

\* const cleanedInput = cleanMove(move); isMoveMatch(cleanedInput, m)
CallIsMoveMatch ==
  /\ calc.pc = "idle"
  /\ LET cleanedInput == cleanMove(calc.args[1])
     IN  calc' = [pc |-> "done",
                  args |-> <<calc.args[1], cleanedInput, calc.args[2]>>,
                  result |-> isMoveMatch(cleanedInput, calc.args[2])]
  /\ UNCHANGED <<fenStore, metaStore, cooldown, events, req, rematch,
                 nRequests, nRematches, playersStore, client, joins, stats,
                 replay, overlap>>

SpecMatch == InitMatch /\ [][CallIsMoveMatch]_vars

\* players joining, beside the page of one of them; the names they ask for
JoinNames == {"ann", "Ann", "bob"}

NextJoin ==
  \/ CreateGame
  \/ FetchGameState
  \/ ReceiveEvent
  \/ \E j \in JoinSlots, u \in JoinNames, t \in Teams : JoinRequest(j, u, t)
  \/ \E j \in JoinSlots : JoinCheck(j)
  \/ \E j \in JoinSlots : JoinPush(j)
  \/ \E j \in JoinSlots : JoinPublish(j)

SpecJoin == Init /\ [][NextJoin]_vars

\* calculateGameStats on histories and rosters of a finished game
StatAuthors == {"ann", "bob", "eve"}
CapturedKinds == {"-", "p", "n", "b", "r", "q", "k"}
Logs ==
  { [move |-> IF c = "k" THEN REGICIDE ELSE Rb1c1, username |-> u,
     team |-> IF u = "bob" THEN "b" ELSE "w", captured |-> c] :
      u \in StatAuthors, c \in CapturedKinds }
ShortHistories == UNION { [1..n -> Logs] : n \in 0..MaxHistory }
\* a player who moved many times and took nothing, then at most one more log
QuietLog(u) ==
  [move |-> Rb1c1, username |-> u, team |-> IF u = "bob" THEN "b" ELSE "w",
   captured |-> "-"]
LongHistories ==
  { [i \in 1..n |-> QuietLog(u)] \o tail :
      u \in {"ann", "bob"}, n \in {SprinterMoves, PacifistMoves},
      tail \in UNION { [1..k -> Logs] : k \in 0..1 } }
Histories == ShortHistories \cup LongHistories
\* the rosters: ann alone; one player a side; two white players; a third
\* player; the list two overlapping joins of one name leave
Member(u, t) == [username |-> u, team |-> t]
Rosters ==
  { <<Member("ann", "w")>>,
    <<Member("ann", "w"), Member("bob", "b")>>,
    <<Member("bob", "b"), Member("ann", "w")>>,
    <<Member("ann", "w"), Member("bob", "w")>>,
    <<Member("ann", "w"), Member("bob", "b"), Member("cat", "b")>>,
    <<Member("ann", "w"), Member("ann", "b"), Member("bob", "b")>> }
Draws == [{"ann", "bob", "cat"} -> BOOLEAN]

InitStats ==
  /\ fenStore = NoFen
  /\ metaStore = NoMeta
  /\ cooldown = {}
  /\ events = <<>>
  /\ req = [p \in Procs |-> IdleReq]
  /\ rematch = IdleRematch
  /\ nRequests = 0
  /\ nRematches = 0
  /\ playersStore = <<>>
  /\ client = IdleClient
  /\ joins = [j \in JoinSlots |-> IdleJoin]
  /\ replay = IdleReplay
  /\ overlap = [p \in Procs |-> 0]
  /\ calc = IdleCalc
  /\ \E h \in Histories, r \in Rosters, w \in Teams :
       stats = [IdleStats EXCEPT !.history = h, !.players = r, !.winner = w]

NextStats == \E random \in Draws : CalculateStats(random)

SpecStats == InitStats /\ [][NextStats]_vars

\* the regicide check on Positions of a game in play
InitRegicide ==
  /\ fenStore \in RegicidePositions
  /\ metaStore = [status |-> "waiting", winner |-> ""]
  /\ cooldown = {}
  /\ events = <<>>
  /\ req = [p \in Procs |-> IdleReq]
  /\ rematch = IdleRematch
  /\ nRequests = 0
  /\ nRematches = 0
  /\ playersStore = <<>>
  /\ client = IdleClient
  /\ joins = [j \in JoinSlots |-> IdleJoin]
  /\ stats = IdleStats
  /\ replay = IdleReplay
  /\ overlap = [p \in Procs |-> 0]
  /\ calc = IdleCalc

SubmitRegicideOne ==
  \E p \in Procs, s \in RegicideSubmissions :
    Submit(p, s.move, s.team, UserOf(p), RegicideRequests)

NextRegicide ==
  \/ SubmitRegicideOne
  \/ \E p \in Procs : CheckCooldown(p)
  \/ \E p \in Procs : ReadFen(p)
  \/ \E p \in Procs : ReadMeta(p)
  \/ \E p \in Procs : WinClaim(p)
  \/ \E p \in Procs : PublishGameOver(p, TRUE)

SpecRegicide == InitRegicide /\ [][NextRegicide]_vars

\* rate limiting: any slot may carry any player's name, so that one player
\* has several submissions in flight, and the store holds markers of another
\* game as well; standard moves only, every event delivered
SubmitCooldownOne ==
  \E p \in Procs, s \in CooldownSubmissions, u \in Users :
    Submit(p, s.move, s.team, u, CooldownRequests)

NextCooldown ==
  \/ CreateGame
  \/ SubmitCooldownOne
  \/ \E p \in Procs : CheckCooldown(p)
  \/ \E p \in Procs : ReadFen(p)
  \/ \E p \in Procs : ReadMeta(p)
  \/ \E p \in Procs : Commit(p)
  \/ \E p \in Procs : PublishUpdate(p, TRUE)
  \/ \E u \in Users : ExpireCooldown(u)
  \/ \E u \in Users : OtherGameCommit(u)
  \/ \E u \in Users : OtherGameExpire(u)

SpecCooldown == Init /\ [][NextCooldown]_vars
(* ------------------------------------------------------------------ *)
(* Properties                                                          *)
(* ------------------------------------------------------------------ *)
\* steps of request p, recognised by its position before and after
CommitStep(p) == req[p].pc = "cas" /\ req'[p].pc = "pubmove"
CasFailStep(p) == req[p].pc = "cas" /\ req'[p].pc \in {"read", "done"}
WinStep(p) == req[p].pc = "win" /\ req'[p].pc = "pubwin"
WinRefusedStep(p) == req[p].pc = "win" /\ req'[p].pc = "done"

GameOverEvents == {i \in DOMAIN events : events[i].name = "game-over"}

\* C1: every successful commit of a standard move stores the Position got by
\* applying the committer's move to the Position stored just before that
\* commit; the stored Position changes in no other way once the game exists,
\* and a submission commits at most once.
C1_CommitAppliesMoveToStored ==
  [][ /\ \A p \in Procs :
           CommitStep(p) =>
             LET a == Attempt(fenStore, req[p].team, req[p].move)
             IN  /\ a.kind = "move"
                 /\ fenStore' = a.newFen
                 /\ req[p].wrote = 0 /\ req'[p].wrote = 1
      /\ \A p \in Procs : CasFailStep(p) => fenStore' = fenStore
      /\ fenStore' # fenStore =>
           fenStore = NoFen \/ \E p \in Procs : CommitStep(p) ]_vars

\* C1 witness: a submission lost a CAS to another commit, read again and has
\* now committed its move on the newer Position.
C1_Witness ==
  \E p \in Procs :
    /\ req[p].pc = "pubmove"
    /\ req[p].casFailed >= 1
    /\ fenStore = req[p].newFen

\* C2: of the win claims made on a game, exactly one succeeds: it sets
\* status=finished and winner=its team in one step; every other win claim
\* answers 'Game already over' and leaves status and winner as they are; the
\* game-over event is published at most once.
C2_ExactlyOneWinClaimSucceeds ==
  /\ [](Cardinality(GameOverEvents) <= 1)
  /\ [](\A p \in Procs :
          req[p].path = "lostwin" =>
            /\ req[p].wrote = 0
            /\ req[p].response = Response(FALSE, 400, "Game already over")
            /\ metaStore.status = "finished" /\ metaStore.winner \in Teams)
  /\ [][ /\ \A p \in Procs :
              WinStep(p) =>
                /\ metaStore.status # "finished"
                /\ metaStore'.status = "finished"
                /\ metaStore'.winner = req[p].team
         /\ \A p \in Procs : WinRefusedStep(p) => metaStore' = metaStore
         /\ metaStore.status = "finished" => metaStore' = metaStore ]_vars

\* C2 witness: two win claims raced; one was recorded and published, the
\* other was refused.
C2_Witness ==
  \E p, q \in Procs :
    /\ p # q
    /\ req[p].path = "lostwin"
    /\ req[q].path = "won"
    /\ Cardinality(GameOverEvents) = 1

\* C3: once status is finished the stored Position never changes again (no
\* rematch): no standard-move commit succeeds after a win claim has.
C3_FinishedFreezesPosition ==
  [][metaStore.status = "finished" => fenStore' = fenStore]_vars

\* C4: a win claim succeeds only while the stored Position is the snapshot
\* in which the king capture was detected.
C4_WinOnlyOnReadSnapshot ==
  [][\A p \in Procs : WinStep(p) => fenStore = req[p].currentFen]_vars

\* C5: a submission answered with success=false has written nothing.
C5_FailureWritesNothing ==
  \A p \in Procs :
    req[p].pc = "done" /\ ~req[p].response.success => req[p].wrote = 0

RematchMetaStep ==
  /\ rematch.pc = "writing" /\ ~rematch.metaDone
  /\ rematch'.metaDone \/ rematch'.pc = "publish"

StatusRank(st) ==
  CASE st = "waiting" -> 1 [] st = "playing" -> 2 [] st = "finished" -> 3
    [] OTHER -> 0

C8_AfterFinishGameOver ==
  \A p \in Procs :
    req[p].pc = "done" /\ req[p].afterFinish /\ req[p].path # "missing" =>
      /\ req[p].response = Response(FALSE, 400, "Game Over")
      /\ req[p].wrote = 0

\* C8 amended: a well-formed submission that starts after status became
\* finished (no rematch) writes nothing; it answers 'Cooldown active' when
\* the submitter's cooldown marker is present at the check and 'Game Over'
\* otherwise.
C8_AfterFinishCooldownOrGameOver ==
  /\ [](\A p \in Procs :
          req[p].afterFinish =>
            /\ req[p].wrote = 0
            /\ req[p].pc \in {"cooldown", "read", "done"}
            /\ req[p].pc = "done" /\ req[p].path # "missing" =>
                 \/ /\ req[p].path = "cooldown"
                    /\ req[p].response = Response(FALSE, 429, "Cooldown active")
                 \/ /\ req[p].path = "finished"
                    /\ req[p].response = Response(FALSE, 400, "Game Over"))
  /\ [][\A p \in Procs :
          /\ req[p].afterFinish /\ req[p].pc = "cooldown"
          /\ req'[p].pc = "done"
          => cooldownKey(GameId, req[p].username) \in cooldown]_vars

\* C8 witness: a submission that started after the win has been answered
\* 'Game Over'.
C8_Witness ==
  \E p \in Procs :
    /\ req[p].pc = "done" /\ req[p].afterFinish
    /\ req[p].path = "finished"
    /\ metaStore.status = "finished"

\* how far a running request is: the pass, then the place in the pass
Progress(r) ==
  r.attempt * 10 +
    (CASE r.pc = "cooldown" -> 0
       [] r.pc = "read" -> 1 + (IF r.gotFen THEN 1 ELSE 0)
                             + (IF r.gotMeta THEN 1 ELSE 0)
       [] r.pc \in {"cas", "win"} -> 4
       [] r.pc \in {"pubmove", "pubwin"} -> 5
       [] OTHER -> 10 * MAX_RETRIES)

\* C9: a submission makes at most MAX_RETRIES read-compute-commit passes and
\* then has exactly one answer: wherever it stands it waits for nothing but
\* its own next call, every step of its own takes it further, a failed CAS
\* changes nothing and sends it back to read both values anew and to compute
\* the outcome from them, the update script that fails on the last pass is
\* answered 'Server busy, try again' (409) with nothing written, and it never
\* makes more than one successful write.
C9_BoundedRetries ==
  /\ [](\A p \in Procs :
          /\ req[p].attempt < MAX_RETRIES
          /\ req[p].casFailed <= MAX_RETRIES
          /\ req[p].wrote <= 1
          /\ (req[p].pc = "done") = (req[p].response # NoResponse)
          /\ req[p].pc \in {"idle", "cooldown", "read", "cas", "win",
                           "pubmove", "pubwin", "done"}
          /\ req[p].pc = "read" => ~(req[p].gotFen /\ req[p].gotMeta)
          /\ req[p].pc = "cas" =>
               /\ req[p].casFailed = req[p].attempt
               /\ req[p].newFen =
                    Attempt(req[p].currentFen, req[p].team, req[p].move).newFen
          /\ req[p].path = "exhausted" =>
               /\ req[p].casFailed = MAX_RETRIES
               /\ req[p].wrote = 0
               /\ req[p].response = BusyResponse)
  /\ [][\A p \in Procs :
          /\ req[p].pc \notin {"idle", "done"} /\ req'[p] # req[p]
               => Progress(req'[p]) > Progress(req[p])
          /\ CasFailStep(p) =>
               /\ fenStore' = fenStore
               /\ req'[p].pc = "read" =>
                    /\ ~req'[p].gotFen /\ ~req'[p].gotMeta
                    /\ req'[p].currentFen = NoFen
                    /\ req'[p].meta = NoMeta]_vars

\* C9 witness: a submission has lost MAX_RETRIES update scripts in a row
\* and has been answered 'Server busy, try again'.
C9_Witness ==
  \E p \in Procs :
    /\ req[p].pc = "done"
    /\ req[p].path = "exhausted"
    /\ req[p].casFailed = MAX_RETRIES

\* C10: the answer to a text that matches no legal move differs, in status
\* code or message, from the answer given when the retries are exhausted.
C10_NoMatchAnswerIsDistinct ==
  \A p \in Procs :
    req[p].pc = "done" /\ req[p].path = "nomatch" =>
      req[p].response # BusyResponse

\* C11: when two submissions hold the same read Position and one of them
\* commits, the update script of the other can no longer succeed against that
\* Position; its failed script changes nothing and sends it back to read, and
\* once it holds the Position that is stored now and its text still matches a
\* move there, its next script commits that move on top of the other's.
C11_OneCasWinsLoserRetries ==
  [][\A p \in Procs :
       /\ CommitStep(p) =>
            \A q \in Procs \ {p} :
              req[q].pc = "cas" /\ req[q].currentFen = req[p].currentFen =>
                fenStore' # req[q].currentFen
       /\ /\ req[p].pc = "cas" /\ req'[p] # req[p]
          /\ fenStore # req[p].currentFen
          => /\ CasFailStep(p)
             /\ fenStore' = fenStore
             /\ req[p].attempt + 1 < MAX_RETRIES => req'[p].pc = "read"
       /\ /\ req[p].pc = "cas" /\ req'[p] # req[p]
          /\ fenStore = req[p].currentFen
          => /\ CommitStep(p)
             /\ fenStore' = Attempt(fenStore, req[p].team, req[p].move).newFen
     ]_vars

\* C11 witness: p and q read the same Position; p committed first, q's script
\* failed, q read the Position p had written and committed on top of it.
C11_Witness ==
  \E p, q \in Procs :
    /\ p # q
    /\ req[p].pc = "pubmove" /\ req[q].pc = "pubmove"
    /\ req[q].casFailed = 1
    /\ req[q].currentFen = req[p].newFen
    /\ fenStore = req[q].newFen

RematchFenStep ==
  /\ rematch.pc = "writing" /\ ~rematch.fenDone
  /\ rematch'.fenDone \/ rematch'.pc = "publish"

HoldsSnapshot(r) == r.pc \in {"read", "cas", "win"} /\ r.gotFen

\* C12: a submission holds nothing against the others. What a request reads
\* is the Position stored at that instant; while it sits on its snapshot the
\* stored Position changes only by its own commit or, with no step of its
\* own, by another request's commit, by a rematch or by the game's creation; whether a script commits is decided by the
\* stored Position alone, so it fails only after such a write by another;
\* a failed script changes neither the store, nor a marker, nor any other
\* request; and a marker appears only with its owner's successful commit.
C12_LosersHoldNothing ==
  [][ /\ \A p \in Procs :
           /\ ~HoldsSnapshot(req[p]) /\ HoldsSnapshot(req'[p]) =>
                req'[p].currentFen = fenStore /\ fenStore' = fenStore
           /\ /\ HoldsSnapshot(req[p]) /\ req[p].currentFen = fenStore
              /\ fenStore' # fenStore
              => \/ CommitStep(p)
                 \/ /\ req'[p] = req[p]
                    /\ \/ fenStore = NoFen
                       \/ RematchFenStep
                       \/ \E q \in Procs \ {p} : CommitStep(q)
           /\ req[p].pc = "cas" /\ req'[p] # req[p] =>
                /\ CommitStep(p) <=> fenStore = req[p].currentFen
                /\ ~CommitStep(p) =>
                     /\ CasFailStep(p)
                     /\ fenStore # req[p].currentFen
                     /\ fenStore' = fenStore /\ metaStore' = metaStore
                     /\ cooldown' = cooldown /\ events' = events
                     /\ \A q \in Procs \ {p} : req'[q] = req[q]
      /\ ~(cooldown' \subseteq cooldown) =>
           \E p \in Procs :
             /\ CommitStep(p)
             /\ cooldown' = cooldown \cup {cooldownKey(GameId, req[p].username)}
    ]_vars

\* C12 witness: p sits on a snapshot that q, reading the same Position, has
\* since replaced by its commit.
C12_Witness ==
  \E p, q \in Procs :
    /\ p # q
    /\ req[p].pc = "cas" /\ req[q].pc = "pubmove"
    /\ req[q].currentFen = req[p].currentFen
    /\ fenStore = req[q].newFen

\* C13: the cooldown check is the first access a submission makes to the
\* store and changes nothing. If the marker of the submitting player for this
\* game exists at the check, the submission is answered 'Cooldown active'
\* (429) there and then, having read and written nothing; if it does not
\* exist the submission goes on to its reads, whatever markers of other
\* players or of another game exist.
C13_CooldownRejectsBeforeAnyAccess ==
  [][\A p \in Procs :
       req[p].pc = "cooldown" /\ req'[p] # req[p] =>
         /\ ~req[p].gotFen /\ ~req[p].gotMeta /\ req[p].wrote = 0
         /\ fenStore' = fenStore /\ metaStore' = metaStore
         /\ cooldown' = cooldown /\ events' = events
         /\ IF <<GameId, req[p].username>> \in cooldown
            THEN /\ req'[p].pc = "done" /\ req'[p].path = "cooldown"
                 /\ req'[p].response = Response(FALSE, 429, "Cooldown active")
                 /\ req'[p].wrote = 0
            ELSE req'[p].pc = "read"
    ]_vars

\* C13 witness: one submission has been rejected for its player's marker,
\* while another has just been admitted although the store holds the marker
\* of the other player for this game and the marker of its own player for
\* another game.
C13_Witness ==
  \E p, q \in Procs :
    /\ p # q
    /\ req[p].pc = "done" /\ req[p].path = "cooldown"
    /\ req[q].pc = "read" /\ ~req[q].gotFen /\ ~req[q].gotMeta
    /\ <<OtherGameId, req[q].username>> \in cooldown
    /\ <<GameId, req[q].username>> \notin cooldown
    /\ \E u \in Users \ {req[q].username} : <<GameId, u>> \in cooldown

\* C14: while a player's marker for the game exists, from the commit of a
\* standard move of that player until the marker expires, no further standard
\* move of that player is committed.
C14_OneCommitPerWindow ==
  [][\A p \in Procs :
       CommitStep(p) => <<GameId, req[p].username>> \notin cooldown]_vars

\* C15: every submission that passed the cooldown check has set its player's
\* marker by the time it is answered, whether its move was committed, matched
\* no legal move, was accepted as a win or was given up after the retries.
C15_AdmittedSetsMarker ==
  [][\A p \in Procs :
       /\ req[p].pc \notin {"idle", "cooldown", "done"}
       /\ req'[p].pc = "done"
       /\ req'[p].path \in {"moved", "nomatch", "won", "exhausted"}
       => req'[p].marked]_vars

\* the request as it stands when both of its reads have come back
Snapshot(p) ==
  [req[p] EXCEPT !.gotFen = TRUE, !.gotMeta = TRUE,
                 !.currentFen = IF req[p].gotFen THEN @ ELSE fenStore,
                 !.meta = IF req[p].gotMeta THEN @ ELSE metaStore]

\* C16: what the handler decides once it has read (answer, win claim, or
\* commit attempt and the Position it would store) is the same whichever side
\* the stored Position names as the side to move.
C16_TurnFieldIgnored ==
  [][\A p \in Procs :
       /\ req[p].pc = "read" /\ req'[p].pc # "read"
       /\ Snapshot(p).currentFen # NoFen
       => \A t \in Teams :
            LET alt == AfterRead([Snapshot(p) EXCEPT !.currentFen.turn = t])
            IN  /\ alt.pc = req'[p].pc
                /\ alt.newFen = req'[p].newFen
                /\ alt.captured = req'[p].captured
                /\ alt.path = req'[p].path
                /\ alt.response = req'[p].response]_vars

\* C16 witness: black commits on a Position whose side to move is white,
\* in a game whose every committed move so far was black's: black made the
\* first move from the initial Position and is moving again.
C16_Witness ==
  \E p \in Procs :
    /\ req[p].pc = "pubmove" /\ req[p].team = "b"
    /\ req[p].currentFen.turn = "w"
    /\ Len(events) >= 1
    /\ \A i \in DOMAIN events : events[i].team = "b"

\* C17: a submission whose text is a capture onto the enemy king's square,
\* read while the game is not finished, goes to its win claim whatever side
\* the stored Position names; the claim made while the game is not finished
\* sets status=finished and winner=its team; the handler then publishes one
\* game-over event with captured='k' and the submitter's name, from which a
\* subscribed client appends one king-capture entry of that submitter, and
\* answers with success and that winner.
C17_RegicideAcceptedAsWin ==
  [][\A p \in Procs :
       /\ /\ req[p].pc = "read" /\ req'[p].pc # "read"
          /\ Snapshot(p).currentFen # NoFen /\ Snapshot(p).meta # NoMeta
          /\ Snapshot(p).meta.status # "finished"
          /\ \E t \in Teams :
               Attempt([Snapshot(p).currentFen EXCEPT !.turn = t],
                       req[p].team, req[p].move).kind = "regicide"
          => req'[p].pc = "win"
       /\ /\ req[p].pc = "win" /\ req'[p] # req[p]
          /\ metaStore.status # "finished"
          => /\ req'[p].pc = "pubwin"
             /\ metaStore' = [metaStore EXCEPT !.status = "finished",
                                               !.winner = req[p].team]
       /\ req[p].pc = "pubwin" /\ req'[p] # req[p] =>
            /\ req'[p].response = WinResponse(req[p].team)
            /\ Len(events') = Len(events) + 1
            /\ events'[Len(events')].name = "game-over"
            /\ events'[Len(events')].captured = "k"
            /\ events'[Len(events')].lastMover = req[p].username
            /\ moveHistory(events') =
                 Append(moveHistory(events),
                        [move |-> REGICIDE, username |-> req[p].username,
                         team |-> req[p].team, captured |-> "k"])
    ]_vars

\* C18: a win claim that succeeds changes status and winner and nothing
\* else: the stored Position, the list of players, every cooldown marker, the
\* published events and every other request are after it as before it.
C18_WinClaimFrame ==
  [][\A p \in Procs :
       WinStep(p) =>
         /\ metaStore' = [metaStore EXCEPT !.status = "finished",
                                           !.winner = req[p].team]
         /\ fenStore' = fenStore
         /\ playersStore' = playersStore
         /\ cooldown' = cooldown
         /\ events' = events
         /\ \A q \in Procs \ {p} : req'[q] = req[q]]_vars

\* C18 witness: a win claim has just succeeded in a game that has players,
\* a committed move and a cooldown marker.
C18_Witness ==
  \E p \in Procs :
    /\ req[p].pc = "pubwin"
    /\ metaStore.status = "finished" /\ metaStore.winner = req[p].team
    /\ playersStore # <<>>
    /\ cooldown # {}
    /\ fenStore # STARTING_FEN

\* the squares from which a piece of `team` bears on the enemy king's square
KillSquares(fen, team) ==
  {from \in Squares :
     /\ fen.board[from].color = team
     /\ findKing(fen, Other(team)) # NoSquare
     /\ findKing(fen, Other(team))
          \in Reach(fen.board, from, fen.board[from].type)}

\* the text names the move of the piece on `from` to `to`: by its two
\* squares, or by the piece letter with the target, alone or after the file,
\* the rank or the square it leaves
Denotes(text, fen, from, to) ==
  LET p == fen.board[from].type
      f == FileChars[from[1]]
      r == RankChars[from[2]]
      t == SqText(to)
  IN  cleanMove(text) \in {Lan(from, to), <<p>> \o t, <<p, f>> \o t,
                           <<p, r>> \o t, <<p, f, r>> \o t}

\* C19: whenever some piece of the submitting team bears on the enemy king's
\* square in the Position read and the text names that capture, the handler
\* takes the regicide branch, whether or not the submitter's own king is or
\* would be attacked.
C19_RegicideReportedForEveryCapture ==
  [][\A p \in Procs :
       /\ req[p].pc = "read" /\ req'[p].pc # "read"
       /\ Snapshot(p).currentFen # NoFen /\ Snapshot(p).meta # NoMeta
       /\ Snapshot(p).meta.status # "finished"
       /\ \E from \in KillSquares(Snapshot(p).currentFen, req[p].team) :
            Denotes(req[p].move, Snapshot(p).currentFen, from,
                    findKing(Snapshot(p).currentFen, Other(req[p].team)))
       => req'[p].pc = "win"]_vars

\* C20: update-board events are published in the order of their commits: when
\* a request publishes its update-board event, no other request that has
\* committed is still waiting to publish a Position that the publisher's move
\* was applied to (its commit came first, and so must its event).
C20_PublishInCommitOrder ==
  [][\A p, q \in Procs :
       /\ p # q
       /\ req[p].pc = "pubmove" /\ req'[p].pc = "done"
       /\ Len(events') = Len(events) + 1
       /\ req[q].pc = "pubmove"
       => req[q].newFen # req[p].currentFen]_vars

\* C21: the move log of a client subscribed throughout has one entry for
\* each commit and none besides: the log grows only on the step by which a
\* request that has committed (a standard move or a win) ends its publish,
\* by one entry of that request, and every such request adds its entry.
C21_OneEntryPerCommit ==
  [][/\ moveHistory(events') # moveHistory(events) =>
          \E p \in Procs :
            /\ req[p].pc \in {"pubmove", "pubwin"} /\ req'[p].pc = "done"
            /\ Len(moveHistory(events')) = Len(moveHistory(events)) + 1
            /\ moveHistory(events')[Len(moveHistory(events'))].username
                 = req[p].username
     /\ \A p \in Procs :
          req[p].pc \in {"pubmove", "pubwin"} /\ req'[p].pc = "done" =>
            Len(moveHistory(events')) = Len(moveHistory(events)) + 1]_vars

KingEntries(history) == {i \in DOMAIN history : history[i].captured = "k"}

\* C22: a king capture enters the move log only by a win claim: no
\* update-board event carries captured = 'k', the log holds at most one
\* king-capture entry, and that entry is the last of the log.
C22_KingEntryOnlyByWin ==
  /\ \A i \in DOMAIN events :
       events[i].name = "update-board" => events[i].captured # "k"
  /\ Cardinality(KingEntries(moveHistory(events))) <= 1
  /\ KingEntries(moveHistory(events)) \subseteq {Len(moveHistory(events))}

\* C23: when the server rejects the page's move, the Position displayed
\* becomes the latest authoritative Position the page has received, whether
\* by the state fetch or by an update-board event, one that came while the
\* request was in flight included.
C23_RollbackToLatestAuthoritative ==
  [][/\ client.pc = "waiting" /\ client'.pc = "idle"
     /\ req[1].response.status # 200
     => client'.fen = client.serverFen]_vars

StatsStep == stats'.finalStats # stats.finalStats
NoBrickList(teamStats) ==
  [i \in DOMAIN teamStats |->
     LET notBrick(b) == b # "BRICK"
     IN  [teamStats[i] EXCEPT !.badges = SelectSeq(@, notBrick)]]
NoBrick(gameStats) ==
  [gameStats EXCEPT !.whiteStats = NoBrickList(@),
                    !.blackStats = NoBrickList(@)]
HasBadge(gameStats, badge) ==
  \E teamStats \in {gameStats.whiteStats, gameStats.blackStats} :
    \E i \in DOMAIN teamStats : \E j \in DOMAIN teamStats[i].badges :
      teamStats[i].badges[j] = badge

\* C24: whatever the random draws of two calls on the same history, roster
\* and winner, the two results are the same once the BRICK badges are left
\* out: the same team lists in the same order with the same rank, moves,
\* score, kills and other badges; and the call leaves the history and the
\* roster as they were.
C24_StatsDeterministic ==
  [][StatsStep =>
       /\ stats'.history = stats.history
       /\ stats'.players = stats.players
       /\ \A random \in Draws :
            NoBrick(calculateGameStats(stats.history, stats.players,
                                       stats.winner, random).result)
              = NoBrick(stats'.finalStats)]_vars

\* C24 witness: a result in which the draw gave a BRICK badge, for a history
\* that a second call with another draw answers without it.
C24_Witness ==
  /\ HasBadge(stats.finalStats, "BRICK")
  /\ \E random \in Draws :
       ~HasBadge(calculateGameStats(stats.history, stats.players,
                                    stats.winner, random).result, "BRICK")

\* the stat of a username in a result, and the entries a username authored
AllStats(gameStats) == gameStats.whiteStats \o gameStats.blackStats
AuthoredBy(history, u) ==
  LET byU(log) == log.username = u
  IN  SelectSeq(history, byU)
TakenBy(history, u) ==
  LET took(log) == log.username = u /\ log.captured # "-"
  IN  SelectSeq(history, took)
DistinctNames(players) ==
  \A i, j \in DOMAIN players :
    players[i].username = players[j].username => i = j
RECURSIVE KillPoints(_)
KillPoints(kills) ==
  IF kills = <<>> THEN 0
  ELSE KillPoints(Tail(kills)) +
       (CASE Head(kills) = "p" -> 1 [] Head(kills) = "n" -> 3
          [] Head(kills) = "b" -> 3 [] Head(kills) = "r" -> 5
          [] Head(kills) = "q" -> 9 [] Head(kills) = "k" -> 25)
RECURSIVE ScoreSum(_)
ScoreSum(teamStats) ==
  IF teamStats = <<>> THEN 0
  ELSE ScoreSum(Tail(teamStats)) + Head(teamStats).score

\* C25: with distinct usernames in the roster, every rostered player has one
\* stat; its moves is the number of entries of that username, its kills the
\* captured kinds of those entries in log order, its score the sum of their
\* points (p 1, n 3, b 3, r 5, q 9, k 25); each team total is the sum of the
\* scores of the team's stats; entries of other usernames count for no one.
C25_MovesKillsScore ==
  (stats.finalStats # NoStats /\ DistinctNames(stats.players)) =>
    LET all == AllStats(stats.finalStats)
    IN  /\ Len(all) = Len(stats.players)
        /\ \A i \in DOMAIN stats.players :
             \E k \in DOMAIN all :
               /\ all[k].username = stats.players[i].username
               /\ all[k].team = stats.players[i].team
               /\ all[k].moves =
                    Len(AuthoredBy(stats.history, all[k].username))
               /\ all[k].kills =
                    [n \in DOMAIN TakenBy(stats.history, all[k].username) |->
                       TakenBy(stats.history, all[k].username)[n].captured]
               /\ all[k].score = KillPoints(all[k].kills)
        /\ stats.finalStats.totalWhiteScore
             = ScoreSum(stats.finalStats.whiteStats)
        /\ stats.finalStats.totalBlackScore
             = ScoreSum(stats.finalStats.blackStats)

\* C25 witness: a result for a roster of distinct names where a rostered
\* player took the king and an entry with a capture is of a username that
\* is not rostered.
C25_Witness ==
  /\ stats.finalStats # NoStats /\ DistinctNames(stats.players)
  /\ \E i \in DOMAIN stats.history :
       stats.history[i].username = "eve" /\ stats.history[i].captured = "q"
  /\ \E k \in DOMAIN AllStats(stats.finalStats) :
       /\ AllStats(stats.finalStats)[k].kills = <<"k">>
       /\ AllStats(stats.finalStats)[k].score = 25

TeamList(gameStats, team) ==
  IF team = "w" THEN gameStats.whiteStats ELSE gameStats.blackStats
Rostered(players, team) == {i \in DOMAIN players : players[i].team = team}
BetterKey(a, b) ==
  a.score > b.score \/ (a.score = b.score /\ a.moves < b.moves)

\* C26: each team list holds exactly the rostered players of that team, by
\* score descending and, for equal scores, fewer moves first; the ranks of
\* a list are 1..k in list order, so that a player with a strictly better
\* key never has the larger rank.
C26_TeamListsSortedAndRanked ==
  stats.finalStats # NoStats =>
    \A team \in Teams :
      LET list == TeamList(stats.finalStats, team)
      IN  /\ Len(list) = Cardinality(Rostered(stats.players, team))
          /\ \A i \in Rostered(stats.players, team) :
               \E k \in DOMAIN list :
                 list[k].username = stats.players[i].username
          /\ \A k \in DOMAIN list : list[k].team = team
          /\ \A k, l \in DOMAIN list : k < l => ~BetterKey(list[l], list[k])
          /\ \A k \in DOMAIN list : list[k].rank = k
          /\ \A k, l \in DOMAIN list :
               BetterKey(list[k], list[l]) => list[k].rank <= list[l].rank

Holders(gameStats, badge) ==
  {k \in DOMAIN AllStats(gameStats) :
     \E j \in DOMAIN AllStats(gameStats)[k].badges :
       AllStats(gameStats)[k].badges[j] = badge}
KingLogs(history) == {i \in DOMAIN history : history[i].captured = "k"}

\* C27: KINGSLAYER goes to the stat of the username that authored the last
\* king-capture entry and to no other, to none when there is no such entry;
\* MVP goes to at most one stat, the first of the winner's team, only with
\* score > 0; WARLORD goes to at most one stat, the first of the other team,
\* only with score > 10; no stat holds both MVP and WARLORD.
C27_KingslayerMvpWarlord ==
  stats.finalStats # NoStats =>
    LET all == AllStats(stats.finalStats)
        kings == KingLogs(stats.history)
    IN  /\ \A k \in DOMAIN all :
             k \in Holders(stats.finalStats, "KINGSLAYER") <=>
               /\ kings # {}
               /\ \E i \in kings :
                    /\ \A j \in kings : j <= i
                    /\ stats.history[i].username = all[k].username
        /\ Cardinality(Holders(stats.finalStats, "MVP")) <= 1
        /\ \A k \in Holders(stats.finalStats, "MVP") :
             /\ all[k].team = stats.winner /\ all[k].rank = 1
             /\ all[k].score > 0
        /\ Cardinality(Holders(stats.finalStats, "WARLORD")) <= 1
        /\ \A k \in Holders(stats.finalStats, "WARLORD") :
             /\ all[k].team # stats.winner /\ all[k].rank = 1
             /\ all[k].score > 10
        /\ Holders(stats.finalStats, "MVP")
             \cap Holders(stats.finalStats, "WARLORD") = {}

\* C27 witness: a result with two king captures by different authors in
\* which the last author is the kingslayer, with an MVP and a WARLORD.
C27_Witness ==
  /\ Cardinality(KingLogs(stats.history)) = 2
  /\ stats.history[1].username # stats.history[2].username
  /\ Holders(stats.finalStats, "KINGSLAYER") # {}
  /\ Holders(stats.finalStats, "MVP") # {}
  /\ Holders(stats.finalStats, "WARLORD") # {}

\* C28: the replay shows the entries in log order, one frame an entry, and
\* sets no timer after the last; the frame of an entry that is no king
\* capture displays that entry's Position with the impact flag off; the
\* impact flag is on exactly while the frame displayed is that of a
\* king-capture entry.
C28_ReplayFrames ==
  /\ [](/\ replay.currentStep <= Len(replay.history)
        /\ (replay.started /\ replay.currentStep = Len(replay.history)
              => ~replay.timer)
        /\ (replay.isImpactFrame <=>
              /\ replay.currentStep >= 1
              /\ replay.history[replay.currentStep].captured = "k"))
  /\ [][replay'.currentStep # replay.currentStep =>
          /\ replay'.currentStep = replay.currentStep + 1
          /\ LET entry == replay.history[replay'.currentStep]
             IN  entry.captured # "k" =>
                   /\ replay'.replayFen = entry.fen
                   /\ ~replay'.isImpactFrame]_vars

\* C29: every Position stored for a game holds exactly one white king and
\* exactly one black king.
C29_StoredPositionHasBothKings ==
  fenStore # NoFen =>
    /\ Cardinality({sq \in Squares : fenStore.board[sq] = Piece("k", "w")}) = 1
    /\ Cardinality({sq \in Squares : fenStore.board[sq] = Piece("k", "b")}) = 1

\* C30: a submission that at most four other submissions overlap, in a game
\* with no win and no rematch, whose text matches on every Position it
\* reads, never gives up its retry loop: each of its CAS failures stands for
\* another submission that overlapped it, and once answered it has committed
\* its move.
C30_FewOverlapsNeverExhaust ==
  \A p \in Procs :
    overlap[p] <= MAX_RETRIES - 1 =>
      /\ req[p].casFailed <= overlap[p]
      /\ req[p].path # "exhausted"
      /\ (req[p].pc = "done"
            /\ req[p].path \notin {"missing", "cooldown", "notfound", "nomatch"}
          => req[p].wrote = 1)

\* a submission that four others overlapped, each committing between one of
\* its reads and its CAS, committed on its fifth attempt
C30_Witness ==
  \E p \in Procs :
    /\ req[p].pc = "done"
    /\ overlap[p] = MAX_RETRIES - 1
    /\ req[p].casFailed = MAX_RETRIES - 1
    /\ req[p].wrote = 1
    /\ req[p].path = "moved"

\* C31: in every state of a game the recorded winner is 'w' or 'b' if and
\* only if status is finished; creation and rematch leave the winner empty
\* with a status that is not finished, and status becomes finished only in
\* the step that records the winner.
C31_WinnerIffFinished ==
  /\ metaStore # NoMeta =>
       /\ metaStore.winner \in Teams \cup {""}
       /\ metaStore.winner \in Teams <=> metaStore.status = "finished"

\* C31 witness: a game won, reset by a rematch, and won again.
C31_Witness ==
  /\ nRematches > 0
  /\ rematch.pc \notin {"writing"}
  /\ metaStore.status = "finished"
  /\ metaStore.winner \in Teams
  /\ \E p \in Procs : req[p].path = "won"

\* C32: every committed move and every recorded win was submitted with a
\* username of the game's roster and with the team the roster records for
\* that username.
C32_CommitterIsRostered ==
  [][\A p \in Procs :
       CommitStep(p) \/ WinStep(p) =>
         \E i \in DOMAIN playersStore :
           /\ playersStore[i].username = req[p].username
           /\ playersStore[i].team = req[p].team]_vars

\* C33: once no submission is in flight and the page has received every
\* published event, the Position the page displays is the stored Position.
C33_QuiescentClientShowsStore ==
  /\ client.pc = "idle"
  /\ client.seen = Len(events)
  /\ \A p \in Procs : req[p].pc \in {"idle", "done"}
  => client.fen = fenStore

\* the snapshot a request holds at the step that completes its two reads,
\* and the same snapshot with waiting and playing exchanged
SnapshotAtRead(p) ==
  [req[p] EXCEPT !.gotFen = TRUE, !.gotMeta = TRUE,
                 !.currentFen = IF req[p].gotFen THEN @ ELSE fenStore,
                 !.meta = IF req[p].gotMeta THEN @ ELSE metaStore]
SwapStatus(r) ==
  [r EXCEPT !.meta.status = CASE @ = "waiting" -> "playing"
                              [] @ = "playing" -> "waiting"
                              [] OTHER -> @]
ForgetMeta(r) == [r EXCEPT !.meta = NoMeta]

\* C34: no move submission changes status except a successful win claim; a
\* submission is processed the same way whether the status it read is
\* waiting or playing; a committed standard move leaves status as it was;
\* and a game that was created and never reset is waiting until it is
\* finished.
C34_StatusChangesOnlyByWin ==
  /\ [](nRematches = 0 /\ metaStore # NoMeta =>
          metaStore.status \in {"waiting", "finished"})
  /\ [][/\ \A p \in Procs :
             /\ req'[p] # req[p] /\ metaStore' # metaStore =>
                  WinStep(p) /\ metaStore'.status = "finished"
             /\ CommitStep(p) => metaStore' = metaStore
             /\ /\ req[p].pc = "read" /\ req'[p].pc # "read"
                /\ SnapshotAtRead(p).meta # NoMeta
                => ForgetMeta(req'[p]) =
                     ForgetMeta(AfterRead(SwapStatus(SnapshotAtRead(p))))
       ]_vars

\* C34 witness: after a rematch the game is playing, and a submission that
\* read playing has committed a standard move.
C34_Witness ==
  /\ metaStore.status = "playing"
  /\ \E p \in Procs : req[p].pc = "pubmove" /\ req[p].meta.status = "playing"

\* C35: the roster never holds two entries whose usernames are equal
\* ignoring case, and an entry, once appended, is never modified or removed.
C35_RosterUniqueAndAppendOnly ==
  /\ [](\A i, k \in DOMAIN playersStore :
          i # k =>
            toLowerCase(playersStore[i].username) #
              toLowerCase(playersStore[k].username))
  /\ [][/\ Len(playersStore') >= Len(playersStore)
        /\ \A i \in DOMAIN playersStore :
             playersStore'[i] = playersStore[i]]_vars

\* the part of C35 that the join handler keeps: entries are only appended
C35_RosterAppendOnly ==
  [][/\ Len(playersStore') >= Len(playersStore)
     /\ \A i \in DOMAIN playersStore :
          playersStore'[i] = playersStore[i]]_vars

IsPrefix(pre, s) == \E k \in 0..Len(s) : pre = SubSeq(s, 1, k)

\* C36: with the text a player typed normalized once (every 'x', '=', '#'
\* and '+' removed, then lowercased), isMoveMatch is true exactly when the
\* normalized input equals the normalized long form or the normalized short
\* form of the move; or the move is a promotion and the input is a prefix of
\* four characters of its normalized long form or a prefix of at least
\* three characters of its normalized short form; or the moving piece is no
\* pawn and the input is the piece letter, then the source file, the source
\* rank or the source square, then the destination.
C36_MatchExactly ==
  calc.pc = "done" =>
    LET input == cleanMove(calc.args[1])
        m == calc.args[3]
        long == cleanMove(m.lan)
        short == cleanMove(m.san)
        file == <<FileChars[m.from[1]]>>
        rank == <<RankChars[m.from[2]]>>
        dest == SqText(m.to)
    IN  calc.result <=>
          \/ input = long
          \/ input = short
          \/ /\ m.promotion # "-"
             /\ \/ Len(input) = 4 /\ IsPrefix(input, long)
                \/ Len(input) >= 3 /\ IsPrefix(input, short)
          \/ /\ m.piece # "p"
             /\ \/ input = <<m.piece>> \o file \o dest
                \/ input = <<m.piece>> \o rank \o dest
                \/ input = <<m.piece>> \o file \o rank \o dest

\* C36 witness: 'A7A8' has matched the promotion a7a8q by its four-character
\* prefix, and only by it.
C36_Witness ==
  /\ calc.pc = "done"
  /\ calc.result = TRUE
  /\ calc.args[1] = <<"A", "7", "A", "8">>
  /\ calc.args[3].promotion = "q"
  /\ calc.args[2] # cleanMove(calc.args[3].lan)
  /\ calc.args[2] # cleanMove(calc.args[3].san)

\* the frame of a king-capture entry that carries its pre-kill Position,
\* the victim's king in it
ImpactStep ==
  /\ replay'.currentStep = replay.currentStep + 1
  /\ replay.history[replay'.currentStep].captured = "k"
  /\ replay.history[replay'.currentStep].fen # NoFen
  /\ \E sq \in Squares :
       replay.history[replay'.currentStep].fen.board[sq] =
         Piece("k", Other(replay.history[replay'.currentStep].team))
VictimSquare(entry) ==
  CHOOSE sq \in Squares : entry.fen.board[sq] = Piece("k", Other(entry.team))
\* the killer's pieces other than its king that bear on the victim king's
\* square once the killer's king is taken off the board
Attackers(entry) ==
  LET pre == entry.fen.board
      searched == [sq \in Squares |->
                     IF pre[sq] = Piece("k", entry.team) THEN NoPiece
                     ELSE pre[sq]]
  IN  {s \in Squares :
         /\ pre[s].color = entry.team
         /\ pre[s].type # "k"
         /\ VictimSquare(entry) \in Reach(searched, s, pre[s].type)}

RECURSIVE SumValues(_, _, _)
SumValues(values, delays, den) ==
  IF values = {} THEN 0
  ELSE LET v == CHOOSE x \in values : TRUE
           times == Cardinality({i \in DOMAIN delays : delays[i] = v})
       IN  times * v.num * (den \div v.den)
             + SumValues(values \ {v}, delays, den)
SumTimes(delays, den) ==
  SumValues({delays[i] : i \in DOMAIN delays}, delays, den)

\* the claimed delays: 600 ms after each of the last three entries,
\* max(50, 6500 / (n - 3)) ms after every other; and no delay after the last
ClaimedDelays(n, delays) ==
  /\ Len(delays) = n - 1
  /\ \A i \in 1..Len(delays) :
       IF i > n - 3
       THEN delays[i].num = 600 * delays[i].den
       ELSE IF 6500 >= 50 * (n - 3)
       THEN delays[i].num * (n - 3) = 6500 * delays[i].den
       ELSE delays[i].num = 50 * delays[i].den

\* C39: for a log of n entries the delay set after a frame is 600 ms when
\* the frame is one of the last three and max(50, 6500 / (n - 3)) ms
\* otherwise, none is set after the last frame, and the delays between the
\* first and the last frame add up to no more than 8000 ms.
C39_DelaysWithinBudget ==
  calc.pc = "done" =>
    LET n == calc.args[1]
        den == IF n > 3 THEN n - 3 ELSE 1
    IN  /\ ClaimedDelays(n, calc.result)
        /\ SumTimes(calc.result, den) <= 8000 * den

\* the part of C39 that holds for every length: the delays are the claimed
\* ones
C39_DelaysAsClaimed ==
  calc.pc = "done" => ClaimedDelays(calc.args[1], calc.result)
====
